---- MODULE Spec2Model ----
(***************************************************************************)
(* Control plane of the agent cluster: one RootAgent (coordinator), the    *)
(* ChildAgents (workers) it creates, one Monitor per node, the Storage     *)
(* gateway and the LLMService oracle.                                      *)
(*                                                                         *)
(* Execution is single-threaded and cooperative.  One step of the model is *)
(* the code that runs between two suspension points of the main line of    *)
(* control (an awaited Storage write or LLMService call).  A Monitor tick  *)
(* is a timer callback: it runs only while the main line is suspended in   *)
(* such an await or is idle (the operator Yielding).                       *)
(***************************************************************************)
EXTENDS Integers, Sequences, FiniteSets, TLC

(***************************************************************************)
(* Bounds of the model.                                                    *)
(***************************************************************************)
MaxNodes == 2          \* worker identities that can be handed out (uuidv4)
MaxCalls == 2          \* top-level calls made by the user
MaxFaults == 2         \* Storage writes that fail
MaxTimeouts == 1        \* Monitor ticks that find the task overdue
MaxResults == 2        \* length of the lists given to aggregateResults
MaxLoopEvents == 4     \* events held when a tick may still record a loop
MaxRecords == 22       \* recordError calls on the node of SpecHist
MaxOtherErrors == 2    \* of which with the second message
MaxThreshold == 4      \* thresholds given to isInErrorLoop in SpecHist
MaxMonitorEvents == 102 \* events held when a tick of SpecMon still records
MaxMonitorErrors == 3  \* recordError calls on the node of SpecMon
MaxReported == 1       \* directly reported events held at a time in SpecMon
MaxStarts == 3         \* calls of Monitor.start in SpecTimer
MaxTimerEvents == 8    \* events held when a tick of SpecTimer still records
MaxStoreCalls == 1     \* calls of executeTask in SpecStore

(***************************************************************************)
(* Program constants.                                                      *)
(***************************************************************************)
ERROR_LOOP_THRESHOLD == 3
MaxErrorHistory == 20
MAX_EVENTS == 100

Root == 0
Workers == 1..MaxNodes
Nodes == {Root} \cup Workers

ErrInvalidContext == "Invalid task context: missing required instruction"
ErrSelfTest == "Self-test failed"
ErrStorage == "EIO: storage write failed"

NoTask == [id |-> "none"]

(***************************************************************************)
(* Tasks.  A context is a function from its keys to values; a task without *)
(* context has the empty one.                                              *)
(***************************************************************************)
EmptyContext == [k \in {} |-> "x"]

\* the six keywords of analyzeTaskDescription, in its order, named in English
Keywords == <<"analyze", "design", "implement", "test", "deploy", "optimize">>

RelatedTask ==
  [analyze |-> "analyze related task", design |-> "design related task",
   implement |-> "implement related task", test |-> "test related task",
   deploy |-> "deploy related task", optimize |-> "optimize related task"]

DefaultSteps == <<"analyze requirements", "execute task", "verify result">>

\* A description is modelled by the set of keywords it contains.
RootDescriptions == {{"analyze"}, {"analyze", "implement"}}

RootContexts == {[priority |-> "high", requirements |-> "login"]}

\* JavaScript truthiness of an optional field: a string field, a number
\* field, a boolean field, an object field
Truthy(rec, f) == f \in DOMAIN rec /\ rec[f] # ""
TruthyNumber(rec, f) == f \in DOMAIN rec /\ rec[f] # 0
IsTrue(rec, f) == f \in DOMAIN rec /\ rec[f] = TRUE
Has(rec, f) == f \in DOMAIN rec

\* the slip of looking at the whole history instead of its last entries
isInErrorLoopWholeHistory(hist, threshold) ==
  IF Len(hist) < threshold THEN FALSE
  ELSE Cardinality({hist[i] : i \in 1..Len(hist)}) = 1

(***************************************************************************)
(* Agent.isInErrorLoop(threshold), threshold >= 1: slice(-threshold) is    *)
(* the last threshold entries, new Set(...).size the number of different   *)
(* strings among them.                                                     *)
(***************************************************************************)
isInErrorLoop(hist, threshold) ==
  IF Len(hist) < threshold THEN FALSE
  ELSE LET recentErrors == SubSeq(hist, Len(hist) - threshold + 1, Len(hist))
           uniqueErrors == {recentErrors[i] : i \in 1..Len(recentErrors)}
       IN Cardinality(uniqueErrors) = 1

\* the slip of evicting before the limit is passed
recordErrorEvictEarly(hist, error) ==
  LET h == Append(hist, error)
  IN IF Len(h) >= MaxErrorHistory THEN Tail(h) ELSE h

(***************************************************************************)
(* Agent.recordError: the new history (append, evict the oldest over 20)   *)
(***************************************************************************)
recordError(hist, error) ==
  LET h == Append(hist, error)
  IN IF Len(h) > MaxErrorHistory THEN Tail(h) ELSE h

(***************************************************************************)
(* Monitor: the event history holds the types of the events.               *)
(***************************************************************************)
\* Monitor.reportEvent: push, then one shift() over MAX_EVENTS
reportEvent(events, type) ==
  LET h == Append(events, type)
  IN IF Len(h) > MAX_EVENTS THEN Tail(h) ELSE h

\* Agent.recordError: this.monitor.reportEvent({type: ERROR_DETECTED, ...})
\* when the node has a Monitor
recordErrorEvent(events, cfg) ==
  IF cfg.enableMonitor THEN reportEvent(events, "error_detected") ELSE events

\* Monitor.handleErrorLoop: this.eventHistory.push(loopEvent)
handleErrorLoop(events) == Append(events, "loop_detected")

\* the slip of a loop probe that does nothing
checkErrorLoopSkipped(events, inLoop) == events

\* Monitor.checkErrorLoop: reportEvent(event); handleErrorLoop(event)
checkErrorLoop(events, inLoop) ==
  IF inLoop THEN handleErrorLoop(reportEvent(events, "loop_detected"))
  ELSE events

\* Monitor.checkTimeout: reportEvent(event) before handleTimeout(event)
checkTimeout(events, timedOut) ==
  IF timedOut THEN reportEvent(events, "timeout") ELSE events

\* Monitor.checkAgentHealth: handleErrorLoop(event) when the status is
\* error_loop
checkAgentHealth(events, st) ==
  IF st = "error_loop" THEN handleErrorLoop(events) ELSE events

\* the slip of accepting every task
validateTaskContextLax(task) == TRUE

(***************************************************************************)
(* ChildAgent.validateTaskContext                                          *)
(***************************************************************************)
validateTaskContext(task) ==
  ~(~Truthy(task.context, "instruction") /\ task.description = "")

\* the slip of never looking for an error loop on the failure path
failureStatusNeverLoop(hist) == "failed"

\* the slip of leaving the status as it was on the failure path
failureStatusUnset(hist) == "running"

(***************************************************************************)
(* ChildAgent.executeTask, failure path: the status chosen after the error *)
(* has been recorded.                                                      *)
(***************************************************************************)
failureStatus(hist) ==
  IF isInErrorLoop(hist, ERROR_LOOP_THRESHOLD) THEN "error_loop" ELSE "failed"

\* ChildAgent.executeTask: the result built on the success path
successResult(agent, task, llmSuccess) ==
  [taskId |-> task.id, success |-> TRUE,
   output |-> [agentId |-> agent, taskId |-> task.id,
               instruction |-> IF Truthy(task.context, "instruction")
                               THEN task.context.instruction
                               ELSE task.description,
               llmResult |-> [success |-> llmSuccess]],
   selfTestPassed |-> TRUE]

\* the slip of reporting the self-test as passed in the failure result
failureResultSelfTestPassed(task, errorMessage) ==
  [taskId |-> task.id, success |-> FALSE, error |-> errorMessage,
   selfTestPassed |-> TRUE]

\* ChildAgent.executeTask: the result built in the catch block
failureResult(task, errorMessage) ==
  [taskId |-> task.id, success |-> FALSE, error |-> errorMessage,
   selfTestPassed |-> FALSE]

\* ChildAgent.fallbackSelfTest / extractTestCases
fallbackSelfTest(task, st) == task # NoTask /\ st = "running"

(***************************************************************************)
(* Node configuration.  An absent key is an undefined field.               *)
(***************************************************************************)
NoConfig == [name |-> "none"]

\* Agent constructor: this.config = {maxRetries: 3, ..., ...config}
AgentConfig(cfg) ==
  cfg @@ [maxRetries |-> 3, timeout |-> 300000, enableMonitor |-> TRUE,
          description |-> "", template |-> "ChildAgent"]

\* ChildAgent constructor: super({...config, type: CHILD, template: ...})
ChildAgentConfig(cfg) ==
  AgentConfig([type |-> "child",
               template |-> IF Truthy(cfg, "template") THEN cfg.template
                            ELSE "ChildAgent"] @@ cfg)

\* RootAgent constructor: super({...config, type: ROOT, template: ...})
RootAgentConfig(cfg) ==
  AgentConfig([type |-> "root",
               template |-> IF Truthy(cfg, "template") THEN cfg.template
                            ELSE "RootAgent"] @@ cfg)

\* the config of the root in main()
MainRootConfig ==
  RootAgentConfig([name |-> "root-agent", type |-> "root", maxRetries |-> 3,
                   timeout |-> 300000, enableMonitor |-> TRUE])

\* the slip of constructing the child from the caller's config as it is
childConfigUnlinked(size) ==
  [name |-> <<"child-agent-", size + 1>>, type |-> "child",
   template |-> "ChildAgent", maxRetries |-> 3, timeout |-> 120000]

\* RootAgent.executeTask: childConfig, and Agent.addChild: {...config,
\* parentId: this.id, type: CHILD}; size is this.children.size
childConfig(size) ==
  [parentId |-> Root, type |-> "child"] @@
  [name |-> <<"child-agent-", size + 1>>, type |-> "child",
   template |-> "ChildAgent", maxRetries |-> 3, timeout |-> 120000]

\* the slip of rebuilding the replacement from the defaults
recreateConfigFromDefaults(cfg, newId) ==
  [id |-> newId, name |-> cfg.name, type |-> cfg.type]

\* Agent.recreate: newConfig = {...this.config, id: uuidv4(),
\* enableMonitor: true}
recreateConfig(cfg, newId) ==
  [id |-> newId, enableMonitor |-> TRUE] @@ cfg

(***************************************************************************)
(* State.                                                                  *)
(***************************************************************************)
VARIABLES
  status,        \* Agent.status of every node ("none": not constructed)
  errorHistory,  \* Agent.errorHistory
  currentTask,   \* Agent.currentTask
  monRunning,    \* Monitor.isRunning of the node's Monitor
  children,      \* RootAgent.children, keys in insertion order
  nextId,        \* next fresh worker identity
  rf,            \* RootAgent.executeTask in flight
  wf,            \* ChildAgent.executeTask in flight
  inif,          \* initialize() in flight
  tf,            \* terminate() in flight: "main" (awaited), "bg" (Monitor)
  faults,        \* Storage writes that have failed
  timeouts,      \* Monitor ticks that have found a task overdue
  calls,         \* top-level calls made so far
  eventHistory,  \* Monitor.eventHistory of the node's Monitor (event types)
  config,        \* Agent.config, with the id chosen at construction
  obs            \* observations of the run in flight (history only)

vars == <<status, errorHistory, currentTask, monRunning, children, nextId,
          rf, wf, inif, tf, faults, timeouts, calls, eventHistory, config,
          obs>>

NoResult == [taskId |-> "none"]

IdleW == [pc |-> "idle", agent |-> Root, task |-> NoTask, caller |-> "none",
          err |-> "", inCatch |-> FALSE, result |-> NoResult,
          llmSuccess |-> TRUE, passed |-> FALSE, oracle |-> "none",
          historyAtCall |-> <<>>, timedOut |-> FALSE]
\* oracle: how the oracle's selfTest call ended, kept until executeTask has
\* acted on the value of selfTest(); historyAtCall: the node's error history
\* when executeTask was called; timedOut: a Monitor tick has found the task
\* of this call overdue (all three history only)

IdleR == [pc |-> "idle", task |-> NoTask, subTasks |-> <<>>, idx |-> 0,
          results |-> <<>>, target |-> Root, err |-> "", result |-> NoResult]

IdleI == [pc |-> "idle", agent |-> Root, caller |-> "none"]

\* wasTerminated: the node's status was terminated when terminate was called
\* (history only)
IdleT == [pc |-> "idle", idx |-> 0, wasTerminated |-> FALSE]

\* pcs at which the main line is suspended in awaited Storage or LLM calls
WorkerIoPcs ==
  {"io_task_start", "perform", "self_test", "io_self_test_passed",
   "io_log_error", "report"}

\* one awaited Storage write: it succeeds, or fails while failures remain
Io(ok) ==
  /\ ok \/ faults < MaxFaults
  /\ faults' = IF ok THEN faults ELSE faults + 1

\* a Storage failure inside ChildAgent.executeTask: caught by the try block,
\* or raised to the caller when it happens before the try block or in the
\* catch block itself
WThrow ==
  IF wf.inCatch \/ wf.pc \in {"io_task_start", "io_log_error"}
  THEN [wf EXCEPT !.pc = "raised", !.err = ErrStorage, !.oracle = "none"]
  ELSE [wf EXCEPT !.pc = "io_log_error", !.err = ErrStorage,
                  !.oracle = "none"]

WGoto(pc) == [wf EXCEPT !.pc = pc]

(***************************************************************************)
(* ChildAgent.executeTask                                                  *)
(***************************************************************************)
\* updateStatus(RUNNING); currentTask = task; addExecutionLog('task_start')
ChildExecuteTask_begin ==
  /\ wf.pc = "begin"
  /\ status' = [status EXCEPT ![wf.agent] = "running"]
  /\ currentTask' = [currentTask EXCEPT ![wf.agent] = wf.task]
  /\ wf' = WGoto("io_task_start")
  /\ UNCHANGED <<errorHistory, monRunning, children, nextId, rf, inif, tf,
                 faults, calls, obs, timeouts, eventHistory, config>>

\* the task_start log returns (outside the try block); validateTaskContext;
\* performTask begins
ChildExecuteTask_validate ==
  /\ wf.pc = "io_task_start"
  /\ \E ok \in BOOLEAN :
       /\ Io(ok)
       /\ wf' = IF ~ok THEN WThrow
                ELSE IF ~validateTaskContext(wf.task)
                     THEN [wf EXCEPT !.pc = "io_log_error",
                                     !.err = ErrInvalidContext]
                     ELSE WGoto("perform")
  /\ UNCHANGED <<status, errorHistory, currentTask, monRunning, children,
                 nextId, rf, inif, tf, calls, obs, timeouts,
                 eventHistory, config>>

\* performTask: the perform_task log, llmService.executeTask (which returns
\* {success, output} and never throws) and the task_executed log.  The node
\* does not change between these awaits.  performTask does not look at
\* success.  A failing log write is rethrown to the catch block.
ChildPerformTask ==
  /\ wf.pc = "perform"
  /\ \E ok \in BOOLEAN :
       /\ Io(ok)
       /\ IF ok
          THEN \E s \in BOOLEAN :
                 wf' = [wf EXCEPT !.pc = "self_test", !.llmSuccess = s]
          ELSE wf' = WThrow
  /\ UNCHANGED <<status, errorHistory, currentTask, monRunning, children,
                 nextId, rf, inif, tf, calls, obs, timeouts,
                 eventHistory, config>>

\* LLMService.selfTest: the oracle answers passed:true or passed:false, or
\* the call fails or times out, which the catch block turns into passed:false
SelfTestOutcomes == {"passed", "rejected", "failed"}

LLMSelfTest(outcome) == outcome = "passed"

\* what executeTask does with the value of selfTest()
AfterSelfTest(passed) ==
  IF passed THEN [wf EXCEPT !.pc = "io_self_test_passed", !.passed = TRUE]
  ELSE [wf EXCEPT !.pc = "io_log_error", !.err = ErrSelfTest,
                  !.passed = FALSE]

\* the self_test log, then selfTest(): llmService.selfTest (never throws)
\* and the log of its verdict; the node does not change between these awaits
ChildSelfTest ==
  /\ wf.pc = "self_test"
  /\ \E ok \in BOOLEAN :
       /\ Io(ok)
       /\ IF ok
          THEN \E o \in SelfTestOutcomes :
                 wf' = [AfterSelfTest(currentTask[wf.agent] # NoTask
                                      /\ LLMSelfTest(o))
                          EXCEPT !.oracle = o]
          ELSE wf' = WThrow
  /\ UNCHANGED <<status, errorHistory, currentTask, monRunning, children,
                 nextId, rf, inif, tf, calls, obs, timeouts,
                 eventHistory, config>>

\* selfTest(): the log of the verdict fails, whatever the verdict; the catch
\* logs self_test_error and returns fallbackSelfTest()
ChildSelfTest_fallback ==
  /\ wf.pc = "self_test"
  /\ Io(FALSE)
  /\ wf' = AfterSelfTest(fallbackSelfTest(currentTask[wf.agent],
                                          status[wf.agent]))
  /\ UNCHANGED <<status, errorHistory, currentTask, monRunning, children,
                 nextId, rf, inif, tf, calls, obs, timeouts,
                 eventHistory, config>>

\* the self_test_passed log returns: build the result, updateStatus(COMPLETED),
\* reportResult begins
ChildExecuteTask_completed ==
  /\ wf.pc = "io_self_test_passed"
  /\ \E ok \in BOOLEAN :
       /\ Io(ok)
       /\ IF ok
          THEN /\ wf' = [wf EXCEPT !.pc = "report", !.oracle = "none",
                           !.result = successResult(wf.agent, wf.task,
                                                    wf.llmSuccess)]
               /\ status' = [status EXCEPT ![wf.agent] = "completed"]
          ELSE /\ wf' = WThrow
               /\ UNCHANGED status
  /\ UNCHANGED <<errorHistory, currentTask, monRunning, children, nextId, rf,
                 inif, tf, calls, obs, timeouts, eventHistory, config>>

\* catch block: the error log returns; recordError; isInErrorLoop;
\* updateStatus; build the result; reportResult begins
ChildExecuteTask_catch ==
  /\ wf.pc = "io_log_error"
  /\ \E ok \in BOOLEAN :
       /\ Io(ok)
       /\ IF ok
          THEN LET h == recordError(errorHistory[wf.agent], wf.err)
               IN /\ errorHistory' = [errorHistory EXCEPT ![wf.agent] = h]
                  /\ eventHistory' =
                       [eventHistory EXCEPT
                          ![wf.agent] = recordErrorEvent(@, config[wf.agent])]
                  /\ status' = [status EXCEPT ![wf.agent] = failureStatus(h)]
                  /\ wf' = [wf EXCEPT !.pc = "report", !.oracle = "none",
                              !.inCatch = TRUE,
                              !.result = failureResult(wf.task, wf.err)]
          ELSE /\ wf' = WThrow
               /\ UNCHANGED <<status, errorHistory, eventHistory>>
  /\ UNCHANGED <<currentTask, monRunning, children, nextId, rf, inif, tf,
                 calls, obs, timeouts, config>>

\* reportResult (saveState, notifyParent) and reportToParent (the
\* report_to_parent log, saveState, notifyParent) return; executeTask returns
\* the result.  A failing write is caught on the success path and raised to
\* the caller on the failure path.
ChildReportResult ==
  /\ wf.pc = "report"
  /\ \E ok \in BOOLEAN :
       /\ Io(ok)
       /\ wf' = IF ok THEN WGoto("returned") ELSE WThrow
  /\ UNCHANGED <<status, errorHistory, currentTask, monRunning, children,
                 nextId, rf, inif, tf, calls, obs, timeouts,
                 eventHistory, config>>

ChildExecuteTask ==
  \/ ChildExecuteTask_begin
  \/ ChildExecuteTask_validate
  \/ ChildPerformTask
  \/ ChildSelfTest
  \/ ChildSelfTest_fallback
  \/ ChildExecuteTask_completed
  \/ ChildExecuteTask_catch
  \/ ChildReportResult

(***************************************************************************)
(* RootAgent: pure parts                                                   *)
(***************************************************************************)
\* the slip of a fallback that drops the verify step
analyzeTaskDescriptionShort(description) ==
  LET detected == SelectSeq(Keywords, LAMBDA k : k \in description)
  IN IF Len(detected) = 0 THEN SubSeq(DefaultSteps, 1, 2)
     ELSE [i \in 1..Len(detected) |-> RelatedTask[detected[i]]]

\* RootAgent.analyzeTaskDescription: one step per keyword the description
\* contains, in the order of the keyword list; three default steps if none
analyzeTaskDescription(description) ==
  LET detected == SelectSeq(Keywords, LAMBDA k : k \in description)
  IN IF Len(detected) = 0 THEN DefaultSteps
     ELSE [i \in 1..Len(detected) |-> RelatedTask[detected[i]]]

\* RootAgent.decomposeTask; now numbers the uuidv4 identities
decomposeTask(task, now) ==
  LET descriptions == analyzeTaskDescription(task.description)
  IN [i \in 1..Len(descriptions) |->
        [id |-> [kind |-> "sub", call |-> now, step |-> i],
         description |-> descriptions[i],
         context |-> [parentTaskId |-> task.id, step |-> i,
                      totalSteps |-> Len(descriptions),
                      originalContext |-> task.context],
         parentTaskId |-> task.id]]

CtxGet(ctx, k) == IF k \in DOMAIN ctx THEN ctx[k] ELSE "undefined"

\* the slip of handing the subtask over as it is
isolatedTaskUnstripped(subTask) == subTask

\* the slip of passing the parent's context along with the instruction
isolatedTaskWithOriginal(subTask) ==
  [subTask EXCEPT !.context =
     [instruction |-> subTask.description,
      step |-> CtxGet(subTask.context, "step"),
      totalSteps |-> CtxGet(subTask.context, "totalSteps"),
      originalContext |-> CtxGet(subTask.context, "originalContext")]]

\* RootAgent.dispatchTask: the isolated task handed to the worker
isolatedTask(subTask) ==
  [subTask EXCEPT !.context =
     [instruction |-> subTask.description,
      step |-> CtxGet(subTask.context, "step"),
      totalSteps |-> CtxGet(subTask.context, "totalSteps")]]

\* the slip of taking the first child that is not terminated
findAvailableChildAnyLive(kids, st) ==
  LET avail == SelectSeq(kids, LAMBDA c : st[c] # "terminated")
  IN IF Len(avail) = 0 THEN Root ELSE avail[1]

\* RootAgent.findAvailableChild: first child that is idle or completed
\* (Root stands for undefined)
findAvailableChild(kids, st) ==
  LET avail == SelectSeq(kids, LAMBDA c : st[c] \in {"idle", "completed"})
  IN IF Len(avail) = 0 THEN Root ELSE avail[1]

\* Array.join('; ')
RECURSIVE Join(_)
Join(list) ==
  IF Len(list) = 0 THEN <<>>
  ELSE IF Len(list) = 1 THEN <<list[1]>>
  ELSE <<list[1], "; ">> \o Join(Tail(list))

\* RootAgent.aggregateResults: allSuccess, allSelfTestPassed
allSuccess(results) ==
  \A i \in 1..Len(results) : IsTrue(results[i], "success")

allSelfTestPassed(results) ==
  \A i \in 1..Len(results) : IsTrue(results[i], "selfTestPassed")

\* RootAgent.aggregateResults: outputs, errors (filter, then map)
outputsOf(results) ==
  LET withOutput == SelectSeq(results, LAMBDA r : Has(r, "output"))
  IN [i \in 1..Len(withOutput) |-> withOutput[i].output]

errorsOf(results) ==
  LET withError == SelectSeq(results, LAMBDA r : Truthy(r, "error"))
  IN [i \in 1..Len(withError) |-> withError[i].error]

\* RootAgent.aggregateResults: the output object
aggregateOutput(results) ==
  [aggregated |-> TRUE,
   subTaskCount |-> Len(results),
   successCount |->
     Len(SelectSeq(results, LAMBDA r : IsTrue(r, "success"))),
   selfTestPassedCount |->
     Len(SelectSeq(results, LAMBDA r : IsTrue(r, "selfTestPassed"))),
   outputs |-> outputsOf(results),
   errors |-> errorsOf(results)]

\* RootAgent.aggregateResults: this.currentTask?.id || 'unknown'
aggregateTaskId(task) == IF task = NoTask THEN "unknown" ELSE task.id

\* a result object with or without its optional error field
withOptionalError(result, errors) ==
  IF Len(errors) > 0 THEN result @@ [error |-> Join(errors)] ELSE result

\* the slip of taking success from the success flags alone
aggregateResultsSuccessOnly(results, task) ==
  withOptionalError(
    [taskId |-> aggregateTaskId(task), success |-> allSuccess(results),
     output |-> aggregateOutput(results),
     selfTestPassed |-> allSelfTestPassed(results)],
    errorsOf(results))

\* RootAgent.aggregateResults; task is this.currentTask
aggregateResults(results, task) ==
  withOptionalError(
    [taskId |-> aggregateTaskId(task),
     success |-> allSuccess(results) /\ allSelfTestPassed(results),
     output |-> aggregateOutput(results),
     selfTestPassed |-> allSelfTestPassed(results)],
    errorsOf(results))

\* the slip of putting the newest result first
pushResultFront(results, result) == <<result>> \o results

\* RootAgent.executeTask: subTaskResults.push(result)
pushResult(results, result) == Append(results, result)

\* RootAgent.executeTask: subTaskResults[subTaskResults.length - 1] = retry
replaceLast(results, retryResult) ==
  [results EXCEPT ![Len(results)] = retryResult]

\* the slip of retrying after any failure, whatever the worker's status
needsRecreateOnAnyFailure(result, targetStatus) == ~IsTrue(result, "success")

\* RootAgent.executeTask: the condition of the recreate-and-retry branch
needsRecreate(result, targetStatus) ==
  ~IsTrue(result, "success") /\ targetStatus = "error_loop"

\* RootAgent.executeTask: the result built in the catch block
errorResult(task, message) ==
  [taskId |-> task.id, success |-> FALSE, error |-> message]

(***************************************************************************)
(* Scheduling                                                              *)
(***************************************************************************)
InitIoPcs == {"io_storage_init", "io_save", "io_load_md"}
RootIoPcs == {"io_recreate_save", "io_report_save", "io_catch_report_save"}
TermIoPcs == {"io_child_save", "io_save"}

\* no call of the user is in flight
AllIdle ==
  /\ rf.pc = "idle" /\ wf.pc = "idle" /\ inif.pc = "idle"
  /\ tf["main"].pc = "idle"

\* the main line is idle or suspended in an awaited Storage / LLM call, so
\* timer callbacks and continuations of background work can run
Yielding ==
  \/ AllIdle
  \/ wf.pc \in WorkerIoPcs
  \/ inif.pc \in InitIoPcs
  \/ rf.pc \in RootIoPcs
  \/ tf["main"].pc \in TermIoPcs

\* a fresh node n as the constructors leave it, given the config object
\* passed to new ChildAgent(...)
Construct(n, cfg) ==
  /\ status' = [status EXCEPT ![n] = "idle"]
  /\ errorHistory' = [errorHistory EXCEPT ![n] = <<>>]
  /\ currentTask' = [currentTask EXCEPT ![n] = NoTask]
  /\ monRunning' = [monRunning EXCEPT ![n] = FALSE]
  /\ eventHistory' = [eventHistory EXCEPT ![n] = <<>>]
  /\ config' = [config EXCEPT ![n] = ChildAgentConfig(cfg)]
  /\ nextId' = nextId + 1

(***************************************************************************)
(* Agent.initialize, ChildAgent.initialize, RootAgent.initialize           *)
(***************************************************************************)
\* storage.initialize() returns; updateStatus(IDLE); saveState begins
Initialize_storage ==
  /\ inif.pc = "io_storage_init"
  /\ \E ok \in BOOLEAN :
       /\ Io(ok)
       /\ IF ok
          THEN /\ status' = [status EXCEPT ![inif.agent] = "idle"]
               /\ inif' = [inif EXCEPT !.pc = "io_save"]
          ELSE /\ inif' = [inif EXCEPT !.pc = "raised"]
               /\ UNCHANGED status
  /\ UNCHANGED <<errorHistory, currentTask, monRunning, children, nextId, rf,
                 wf, tf, calls, obs, timeouts, eventHistory, config>>

\* saveState returns; monitor.start(); a ChildAgent then loads its template,
\* a RootAgent does updateStatus(IDLE) and returns
Initialize_save ==
  /\ inif.pc = "io_save"
  /\ \E ok \in BOOLEAN :
       /\ Io(ok)
       /\ IF ok
          THEN /\ monRunning' = [monRunning EXCEPT
                                  ![inif.agent] =
                                    @ \/ config[inif.agent].enableMonitor]
               /\ IF inif.agent = Root
                  THEN /\ status' = [status EXCEPT ![Root] = "idle"]
                       /\ inif' = [inif EXCEPT !.pc = "returned"]
                  ELSE /\ inif' = [inif EXCEPT !.pc = "io_load_md"]
                       /\ UNCHANGED status
          ELSE /\ inif' = [inif EXCEPT !.pc = "raised"]
               /\ UNCHANGED <<status, monRunning>>
  /\ UNCHANGED <<errorHistory, currentTask, children, nextId, rf, wf, tf,
                 calls, obs, timeouts, eventHistory, config>>

\* ChildAgent.initialize: loadAgentMd returns or fails (swallowed);
\* updateStatus(IDLE)
Initialize_loadAgentMd ==
  /\ inif.pc = "io_load_md"
  /\ status' = [status EXCEPT ![inif.agent] = "idle"]
  /\ inif' = [inif EXCEPT !.pc = "returned"]
  /\ UNCHANGED <<errorHistory, currentTask, monRunning, children, nextId, rf,
                 wf, tf, faults, calls, obs, timeouts, eventHistory, config>>

Initialize == Initialize_storage \/ Initialize_save \/ Initialize_loadAgentMd

(***************************************************************************)
(* Agent.terminate of the root: slot "main" is a call the user awaits,     *)
(* slot "bg" the call made by Monitor.handleTimeout.                       *)
(***************************************************************************)
\* the loop over children.values() from position k on: the synchronous part
\* of the k-th child's terminate (a leaf: status, monitor.stop(), then its
\* saveState), or after the last child monitor.stop() and saveState of the
\* root.  st and mon are the status / isRunning maps to update, frame the
\* frame of the call.
TermFrom(slot, frame, k, st, mon) ==
  IF k <= Len(children)
  THEN /\ status' = [st EXCEPT ![children[k]] = "terminated"]
       /\ monRunning' = [mon EXCEPT ![children[k]] = FALSE]
       /\ tf' = [tf EXCEPT ![slot] =
                   [frame EXCEPT !.pc = "io_child_save", !.idx = k]]
  ELSE /\ status' = st
       /\ monRunning' = [mon EXCEPT ![Root] = FALSE]
       /\ tf' = [tf EXCEPT ![slot] =
                   [frame EXCEPT !.pc = "io_save", !.idx = k]]

\* terminate(reason) is called on the root: updateStatus(TERMINATED), then
\* the loop
TerminateCall(slot, st) ==
  TermFrom(slot, [IdleT EXCEPT !.wasTerminated = (st[Root] = "terminated")],
           1, [st EXCEPT ![Root] = "terminated"], monRunning)

\* a child's saveState returns: next child, or the root's own tail
Terminate_child(slot) ==
  /\ tf[slot].pc = "io_child_save"
  /\ slot = "bg" => Yielding
  /\ \E ok \in BOOLEAN :
       /\ Io(ok)
       /\ IF ok
          THEN TermFrom(slot, tf[slot], tf[slot].idx + 1, status,
                        monRunning)
          ELSE /\ tf' = [tf EXCEPT ![slot] =
                           IF slot = "bg" THEN IdleT
                           ELSE [@ EXCEPT !.pc = "raised", !.idx = 0]]
               /\ UNCHANGED <<status, monRunning>>
  /\ UNCHANGED <<errorHistory, currentTask, children, nextId, rf, wf, inif,
                 calls, obs, timeouts, eventHistory, config>>

\* the root's saveState returns: terminate returns (or raises)
Terminate_save(slot) ==
  /\ tf[slot].pc = "io_save"
  /\ slot = "bg" => Yielding
  /\ \E ok \in BOOLEAN :
       /\ Io(ok)
       /\ tf' = [tf EXCEPT ![slot] =
                   IF slot = "bg" THEN IdleT
                   ELSE [@ EXCEPT !.pc = IF ok THEN "returned" ELSE "raised",
                                  !.idx = 0]]
  /\ UNCHANGED <<status, errorHistory, currentTask, monRunning, children,
                 nextId, rf, wf, inif, calls, obs, timeouts,
                 eventHistory, config>>

Terminate ==
  \E slot \in {"main", "bg"} : Terminate_child(slot) \/ Terminate_save(slot)

(***************************************************************************)
(* RootAgent.executeTask                                                   *)
(***************************************************************************)
\* what has been observed of the coordinator run in flight, per subtask: the
\* workers it was dispatched to, the result of its first dispatch, the status
\* of the worker when that dispatch returned, its latest result, whether
\* recreate() was called for it and the replacement recreate() constructed
\* (Root: none)
ObsOf(n) ==
  [dispatched |-> [i \in 1..n |-> <<>>],
   first |-> [i \in 1..n |-> NoResult],
   seen |-> [i \in 1..n |-> "none"],
   last |-> [i \in 1..n |-> NoResult],
   recreated |-> {},
   replacement |-> [i \in 1..n |-> Root]]

NoObs == ObsOf(0)

\* the frame of a call of executeTask on worker a
WorkerCall(a, task, caller) ==
  [IdleW EXCEPT !.pc = "begin", !.agent = a, !.task = task,
                !.caller = caller, !.historyAtCall = errorHistory[a]]

InitializeCall(a, caller) ==
  [pc |-> "io_storage_init", agent |-> a, caller |-> caller]

\* updateStatus(RUNNING); currentTask = task; decomposeTask(task)
RootExecuteTask_begin ==
  /\ rf.pc = "begin"
  /\ status' = [status EXCEPT ![Root] = "running"]
  /\ currentTask' = [currentTask EXCEPT ![Root] = rf.task]
  /\ LET subTasks == decomposeTask(rf.task, calls)
     IN /\ rf' = [rf EXCEPT !.pc = "loop", !.subTasks = subTasks, !.idx = 1,
                            !.results = <<>>]
        /\ obs' = ObsOf(Len(subTasks))
  /\ UNCHANGED <<errorHistory, monRunning, children, nextId, wf, inif, tf,
                 faults, calls, timeouts, eventHistory, config>>

\* loop head, a subtask is left and findAvailableChild() finds a child
RootExecuteTask_reuse ==
  /\ rf.pc = "loop"
  /\ rf.idx <= Len(rf.subTasks)
  /\ findAvailableChild(children, status) # Root
  /\ rf' = [rf EXCEPT !.pc = "dispatch",
                      !.target = findAvailableChild(children, status)]
  /\ UNCHANGED <<status, errorHistory, currentTask, monRunning, children,
                 nextId, wf, inif, tf, faults, calls, obs, timeouts,
                 eventHistory, config>>

\* loop head, no child is available: addChild(childConfig), then
\* targetAgent.initialize() is awaited
RootExecuteTask_addChild ==
  /\ rf.pc = "loop"
  /\ rf.idx <= Len(rf.subTasks)
  /\ findAvailableChild(children, status) = Root
  /\ nextId <= MaxNodes
  /\ Construct(nextId, childConfig(Len(children)))
  /\ children' = Append(children, nextId)
  /\ inif' = InitializeCall(nextId, "root")
  /\ rf' = [rf EXCEPT !.pc = "wait_init", !.target = nextId]
  /\ UNCHANGED <<wf, tf, faults, calls, obs, timeouts>>

\* targetAgent.initialize() returns or raises
RootExecuteTask_initialized ==
  /\ rf.pc = "wait_init"
  /\ inif.pc \in {"returned", "raised"}
  /\ inif' = IdleI
  /\ rf' = IF inif.pc = "returned" THEN [rf EXCEPT !.pc = "dispatch"]
           ELSE [rf EXCEPT !.pc = "catch", !.err = ErrStorage]
  /\ UNCHANGED <<status, errorHistory, currentTask, monRunning, children,
                 nextId, wf, tf, faults, calls, obs, timeouts,
                 eventHistory, config>>

\* RootAgent.dispatchTask(subTask, agent): agent.executeTask(isolatedTask),
\* first dispatch and retry
RootDispatchTask ==
  /\ rf.pc \in {"dispatch", "retry_dispatch"}
  /\ wf' = WorkerCall(rf.target, isolatedTask(rf.subTasks[rf.idx]), "root")
  /\ rf' = [rf EXCEPT !.pc = IF rf.pc = "dispatch" THEN "wait_dispatch"
                               ELSE "wait_retry"]
  /\ obs' = [obs EXCEPT !.dispatched[rf.idx] = Append(@, rf.target)]
  /\ UNCHANGED <<status, errorHistory, currentTask, monRunning, children,
                 nextId, inif, tf, faults, calls, timeouts,
                 eventHistory, config>>

\* the dispatch returns: push the result; recreate-and-retry or next subtask
RootExecuteTask_result ==
  /\ rf.pc = "wait_dispatch"
  /\ wf.pc \in {"returned", "raised"}
  /\ wf' = IdleW
  /\ IF wf.pc = "returned"
     THEN /\ rf' = [rf EXCEPT
                      !.results = pushResult(rf.results, wf.result),
                      !.pc = IF needsRecreate(wf.result, status[rf.target])
                             THEN "recreate" ELSE "loop",
                      !.idx = IF needsRecreate(wf.result, status[rf.target])
                              THEN @ ELSE @ + 1]
          /\ obs' = [obs EXCEPT !.last[rf.idx] = wf.result,
                                !.first[rf.idx] = wf.result,
                                !.seen[rf.idx] = status[rf.target]]
     ELSE /\ rf' = [rf EXCEPT !.pc = "catch", !.err = wf.err]
          /\ UNCHANGED obs
  /\ UNCHANGED <<status, errorHistory, currentTask, monRunning, children,
                 nextId, inif, tf, faults, calls, timeouts,
                 eventHistory, config>>

\* targetAgent.recreate(): terminate('Recreating due to error loop') of the
\* worker (a leaf): updateStatus(TERMINATED), monitor.stop(), saveState
RootRecreate_terminate ==
  /\ rf.pc = "recreate"
  /\ status' = [status EXCEPT ![rf.target] = "terminated"]
  /\ monRunning' = [monRunning EXCEPT ![rf.target] = FALSE]
  /\ rf' = [rf EXCEPT !.pc = "io_recreate_save"]
  /\ obs' = [obs EXCEPT !.recreated = @ \cup {rf.idx}]
  /\ UNCHANGED <<errorHistory, currentTask, children, nextId, wf, inif, tf,
                 faults, calls, timeouts, eventHistory, config>>

\* recreate(): the saveState of terminate returns; new ChildAgent(newConfig)
\* with a fresh id; newAgent.initialize() is awaited
RootRecreate_construct ==
  /\ rf.pc = "io_recreate_save"
  /\ \E ok \in BOOLEAN :
       /\ Io(ok)
       /\ IF ok
          THEN /\ nextId <= MaxNodes
               /\ Construct(nextId,
                            recreateConfig(config[rf.target], nextId))
               /\ inif' = InitializeCall(nextId, "root")
               /\ rf' = [rf EXCEPT !.pc = "wait_recreate_init",
                                   !.target = nextId]
               /\ obs' = [obs EXCEPT !.replacement[rf.idx] = nextId]
          ELSE /\ rf' = [rf EXCEPT !.pc = "catch", !.err = ErrStorage]
               /\ UNCHANGED <<status, errorHistory, currentTask, monRunning,
                              nextId, inif, obs, eventHistory, config>>
  /\ UNCHANGED <<children, wf, tf, calls, timeouts>>

\* recreate() returns: this.children.set(newAgent.id, newAgent); the retry
RootRecreate_initialized ==
  /\ rf.pc = "wait_recreate_init"
  /\ inif.pc \in {"returned", "raised"}
  /\ inif' = IdleI
  /\ IF inif.pc = "returned"
     THEN /\ children' = Append(children, rf.target)
          /\ rf' = [rf EXCEPT !.pc = "retry_dispatch"]
     ELSE /\ rf' = [rf EXCEPT !.pc = "catch", !.err = ErrStorage]
          /\ UNCHANGED children
  /\ UNCHANGED <<status, errorHistory, currentTask, monRunning, nextId, wf,
                 tf, faults, calls, obs, timeouts, eventHistory, config>>

\* a coordinator that repeats the retry for as long as it fails
RootExecuteTask_retryResultUntilSuccess ==
  /\ rf.pc = "wait_retry"
  /\ wf.pc \in {"returned", "raised"}
  /\ wf' = IdleW
  /\ IF wf.pc = "returned"
     THEN /\ rf' = IF IsTrue(wf.result, "success")
                   THEN [rf EXCEPT
                           !.results = replaceLast(rf.results, wf.result),
                           !.pc = "loop", !.idx = @ + 1]
                   ELSE [rf EXCEPT !.pc = "retry_dispatch"]
          /\ obs' = [obs EXCEPT !.last[rf.idx] = wf.result]
     ELSE /\ rf' = [rf EXCEPT !.pc = "catch", !.err = wf.err]
          /\ UNCHANGED obs
  /\ UNCHANGED <<status, errorHistory, currentTask, monRunning, children,
                 nextId, inif, tf, faults, calls, timeouts,
                 eventHistory, config>>

\* the retry returns: its result overwrites the last entry
RootExecuteTask_retryResult ==
  /\ rf.pc = "wait_retry"
  /\ wf.pc \in {"returned", "raised"}
  /\ wf' = IdleW
  /\ IF wf.pc = "returned"
     THEN /\ rf' = [rf EXCEPT
                      !.results = replaceLast(rf.results, wf.result),
                      !.pc = "loop", !.idx = @ + 1]
          /\ obs' = [obs EXCEPT !.last[rf.idx] = wf.result]
     ELSE /\ rf' = [rf EXCEPT !.pc = "catch", !.err = wf.err]
          /\ UNCHANGED obs
  /\ UNCHANGED <<status, errorHistory, currentTask, monRunning, children,
                 nextId, inif, tf, faults, calls, timeouts,
                 eventHistory, config>>

\* after the loop: aggregateResults; updateStatus(COMPLETED); reportResult
RootExecuteTask_aggregate ==
  /\ rf.pc = "loop"
  /\ rf.idx > Len(rf.subTasks)
  /\ rf' = [rf EXCEPT !.pc = "io_report_save",
              !.result = aggregateResults(rf.results, currentTask[Root])]
  /\ status' = [status EXCEPT ![Root] = "completed"]
  /\ UNCHANGED <<errorHistory, currentTask, monRunning, children, nextId, wf,
                 inif, tf, faults, calls, obs, timeouts, eventHistory, config>>

\* reportResult(finalResult): saveState returns (the root has no parent)
RootExecuteTask_reported ==
  /\ rf.pc = "io_report_save"
  /\ \E ok \in BOOLEAN :
       /\ Io(ok)
       /\ rf' = IF ok THEN [rf EXCEPT !.pc = "returned"]
                ELSE [rf EXCEPT !.pc = "catch", !.err = ErrStorage]
  /\ UNCHANGED <<status, errorHistory, currentTask, monRunning, children,
                 nextId, wf, inif, tf, calls, obs, timeouts,
                 eventHistory, config>>

\* catch block: errorResult; updateStatus(FAILED); recordError; reportResult
RootExecuteTask_catch ==
  /\ rf.pc = "catch"
  /\ rf' = [rf EXCEPT !.pc = "io_catch_report_save",
                      !.result = errorResult(rf.task, rf.err)]
  /\ status' = [status EXCEPT ![Root] = "failed"]
  /\ errorHistory' = [errorHistory EXCEPT
                        ![Root] = recordError(errorHistory[Root], rf.err)]
  /\ eventHistory' = [eventHistory EXCEPT
                        ![Root] = recordErrorEvent(@, config[Root])]
  /\ UNCHANGED <<currentTask, monRunning, children, nextId, wf, inif, tf,
                 faults, calls, obs, timeouts, config>>

\* reportResult(errorResult) in the catch block returns, or raises
RootExecuteTask_catchReported ==
  /\ rf.pc = "io_catch_report_save"
  /\ \E ok \in BOOLEAN :
       /\ Io(ok)
       /\ rf' = [rf EXCEPT !.pc = IF ok THEN "returned" ELSE "raised"]
  /\ UNCHANGED <<status, errorHistory, currentTask, monRunning, children,
                 nextId, wf, inif, tf, calls, obs, timeouts,
                 eventHistory, config>>

RootExecuteTask ==
  \/ RootExecuteTask_begin
  \/ RootExecuteTask_reuse
  \/ RootExecuteTask_addChild
  \/ RootExecuteTask_initialized
  \/ RootDispatchTask
  \/ RootExecuteTask_result
  \/ RootRecreate_terminate
  \/ RootRecreate_construct
  \/ RootRecreate_initialized
  \/ RootExecuteTask_retryResult
  \/ RootExecuteTask_aggregate
  \/ RootExecuteTask_reported
  \/ RootExecuteTask_catch
  \/ RootExecuteTask_catchReported

(***************************************************************************)
(* Monitor                                                                 *)
(***************************************************************************)
\* A tick of the interval timer set by Monitor.start: Monitor.performCheck
\* of node n, that is checkErrorLoop, checkTimeout,
\* checkAgentHealth, in this order.  handleErrorLoop does
\* updateStatus(ERROR_LOOP).  checkTimeout compares Date.now() -
\* currentTask.createdAt with config.timeout: whenever the node has a current
\* task the tick may find it overdue (timedOut); handleTimeout then calls
\* terminate('Task timeout'), which runs up to its first awaited write inside
\* the tick, so that checkAgentHealth sees the status terminated.  A tick
\* that finds nothing changes nothing.  limit bounds the event history at
\* which a tick still records a loop.
MonitorTick(n, limit) ==
  /\ Yielding
  /\ status[n] # "none"
  /\ monRunning[n]
  /\ \E timedOut \in BOOLEAN :
       LET inLoop == isInErrorLoop(errorHistory[n], ERROR_LOOP_THRESHOLD)
           afterLoop == IF inLoop THEN [status EXCEPT ![n] = "error_loop"]
                        ELSE status
           seenByHealth == IF timedOut THEN "terminated" ELSE afterLoop[n]
       IN /\ timedOut => /\ currentTask[n] # NoTask
                         /\ TruthyNumber(config[n], "timeout")
                         /\ timeouts < MaxTimeouts
          /\ timeouts' = IF timedOut THEN timeouts + 1 ELSE timeouts
          /\ timedOut \/ inLoop \/ status[n] = "error_loop"
          /\ (inLoop \/ status[n] = "error_loop") =>
               Len(eventHistory[n]) < limit
          /\ eventHistory' =
               [eventHistory EXCEPT
                  ![n] = checkAgentHealth(
                           checkTimeout(checkErrorLoop(@, inLoop), timedOut),
                           seenByHealth)]
          /\ IF timedOut
             THEN IF n = Root
                  THEN TerminateCall("bg", afterLoop)
                  ELSE /\ status' = [afterLoop EXCEPT ![n] = "terminated"]
                       /\ monRunning' = [monRunning EXCEPT ![n] = FALSE]
                       /\ UNCHANGED tf
             ELSE /\ status' = afterLoop
                  /\ UNCHANGED <<monRunning, tf>>
          /\ wf' = IF timedOut /\ wf.pc # "idle" /\ wf.agent = n
                   THEN [wf EXCEPT !.timedOut = TRUE]
                   ELSE wf
  /\ UNCHANGED <<errorHistory, currentTask, children, nextId, rf, inif,
                 faults, calls, obs, config>>

(***************************************************************************)
(* The user: top-level calls, one at a time                                *)
(***************************************************************************)
RootTasks(now) ==
  {[id |-> [kind |-> "root", call |-> now, step |-> 0], description |-> d,
    context |-> c] : d \in RootDescriptions, c \in RootContexts}

\* tasks given directly to a worker: one without instruction and
\* description, one with both
WorkerTasks(now) ==
  {[id |-> [kind |-> "user", call |-> now, step |-> 0], description |-> "",
    context |-> EmptyContext],
   [id |-> [kind |-> "user", call |-> now, step |-> 0],
    description |-> "run tests",
    context |-> [instruction |-> "run the tests"]]}

ChildSet == {children[i] : i \in 1..Len(children)}

\* Agent constructor: this.id = config.id || uuidv4(); a fresh uuid is the
\* node's index
AgentId(n) == IF Has(config[n], "id") THEN config[n].id ELSE n

\* rootAgent.executeTask(task)
UserExecuteTask ==
  /\ AllIdle /\ calls < MaxCalls
  /\ calls' = calls + 1
  /\ \E task \in RootTasks(calls + 1) :
       rf' = [IdleR EXCEPT !.pc = "begin", !.task = task]
  /\ UNCHANGED <<status, errorHistory, currentTask, monRunning, children,
                 nextId, wf, inif, tf, faults, obs, timeouts,
                 eventHistory, config>>

\* child.executeTask(task) on a child of the root
UserExecuteChildTask ==
  /\ AllIdle /\ calls < MaxCalls
  /\ calls' = calls + 1
  /\ \E a \in ChildSet, task \in WorkerTasks(calls + 1) :
       wf' = WorkerCall(a, task, "user")
  /\ UNCHANGED <<status, errorHistory, currentTask, monRunning, children,
                 nextId, rf, inif, tf, faults, obs, timeouts,
                 eventHistory, config>>

\* agent.initialize() on the root or on a child
UserInitialize ==
  /\ AllIdle /\ calls < MaxCalls
  /\ calls' = calls + 1
  /\ \E a \in {Root} \cup ChildSet : inif' = InitializeCall(a, "user")
  /\ UNCHANGED <<status, errorHistory, currentTask, monRunning, children,
                 nextId, rf, wf, tf, faults, obs, timeouts,
                 eventHistory, config>>

\* rootAgent.terminate(reason)
UserTerminate ==
  /\ AllIdle /\ calls < MaxCalls
  /\ calls' = calls + 1
  /\ TerminateCall("main", status)
  /\ UNCHANGED <<errorHistory, currentTask, children, nextId, rf, wf, inif,
                 faults, obs, timeouts, eventHistory, config>>

\* rootAgent.removeChild(agentId) with the id of a child:
\* child.terminate('Removed by parent') is not awaited, so it runs up to its
\* first awaited write (updateStatus(TERMINATED), monitor.stop()) and the
\* write is left to finish on its own; children.delete(agentId)
UserRemoveChild ==
  /\ AllIdle /\ calls < MaxCalls
  /\ calls' = calls + 1
  /\ \E agentId \in ChildSet :
       /\ status' = [status EXCEPT ![agentId] = "terminated"]
       /\ monRunning' = [monRunning EXCEPT ![agentId] = FALSE]
       /\ children' = SelectSeq(children, LAMBDA k : k # agentId)
  /\ UNCHANGED <<errorHistory, currentTask, nextId, rf, wf, inif, tf, faults,
                 obs, timeouts, eventHistory, config>>

\* the awaited call returns to the user (or raises)
UserResume ==
  /\ \/ /\ rf.pc \in {"returned", "raised"}
        /\ rf' = IdleR /\ obs' = NoObs
        /\ UNCHANGED <<wf, inif, tf>>
     \/ /\ wf.pc \in {"returned", "raised"} /\ wf.caller = "user"
        /\ wf' = IdleW
        /\ UNCHANGED <<rf, inif, tf, obs, timeouts>>
     \/ /\ inif.pc \in {"returned", "raised"} /\ inif.caller = "user"
        /\ inif' = IdleI
        /\ UNCHANGED <<rf, wf, tf, obs, timeouts>>
     \/ /\ tf["main"].pc \in {"returned", "raised"}
        /\ tf' = [tf EXCEPT !["main"] = IdleT]
        /\ UNCHANGED <<rf, wf, inif, obs, timeouts>>
  /\ UNCHANGED <<status, errorHistory, currentTask, monRunning, children,
                 nextId, faults, calls, timeouts, eventHistory, config>>

User ==
  \/ UserExecuteTask
  \/ UserExecuteChildTask
  \/ UserInitialize
  \/ UserTerminate
  \/ UserRemoveChild
  \/ UserResume

(***************************************************************************)
(* Specification                                                           *)
(***************************************************************************)
\* the tasks of earlier calls that a long-running cluster still holds
EarlierRootTask ==
  [id |-> [kind |-> "root", call |-> 0, step |-> 0],
   description |-> {"analyze"},
   context |-> [priority |-> "high", requirements |-> "login"]]

EarlierWorkerTask ==
  [id |-> [kind |-> "user", call |-> 0, step |-> 0],
   description |-> "run tests",
   context |-> [instruction |-> "run the tests"]]

\* no call is in flight
NothingInFlight ==
  /\ rf = IdleR
  /\ wf = IdleW
  /\ inif = IdleI
  /\ tf = [slot \in {"main", "bg"} |-> IdleT]
  /\ timeouts = 0
  /\ calls = 0
  /\ obs = NoObs

\* nothing is in flight and no Storage write has failed
Quiescent ==
  /\ NothingInFlight
  /\ faults = 0

\* the state after new RootAgent(config): no child, Monitor not started
FreshCluster ==
  /\ status = [n \in Nodes |-> IF n = Root THEN "idle" ELSE "none"]
  /\ errorHistory = [n \in Nodes |-> <<>>]
  /\ currentTask = [n \in Nodes |-> NoTask]
  /\ monRunning = [n \in Nodes |-> FALSE]
  /\ children = <<>>
  /\ nextId = 1
  /\ eventHistory = [n \in Nodes |-> <<>>]
  /\ config = [n \in Nodes |-> IF n = Root THEN MainRootConfig ELSE NoConfig]

InitFresh ==
  /\ FreshCluster
  /\ Quiescent

\* a cluster that has been in use: after root.initialize() a coordinator run
\* created worker 1, whose self-test failed, and the run's report could not
\* be saved; the user re-initialized the worker; a second coordinator run
\* reused it with success and its report could not be saved either; the user
\* gave the worker a task whose self-test failed, and re-initialized it
UsedCluster ==
  /\ status = [n \in Nodes |-> IF n = Root THEN "failed"
                               ELSE IF n = 1 THEN "idle" ELSE "none"]
  /\ errorHistory = [n \in Nodes |->
                       IF n = Root THEN <<ErrStorage, ErrStorage>>
                       ELSE IF n = 1 THEN <<ErrSelfTest, ErrSelfTest>>
                       ELSE <<>>]
  /\ currentTask = [n \in Nodes |-> IF n = Root THEN EarlierRootTask
                                    ELSE IF n = 1 THEN EarlierWorkerTask
                                    ELSE NoTask]
  /\ monRunning = [n \in Nodes |-> n \in {Root, 1}]
  /\ children = <<1>>
  /\ nextId = 2
  /\ eventHistory = [n \in Nodes |->
                       IF n \in {Root, 1}
                       THEN <<"error_detected", "error_detected">>
                       ELSE <<>>]
  /\ config = [n \in Nodes |-> IF n = Root THEN MainRootConfig
                               ELSE IF n = 1
                                    THEN ChildAgentConfig(childConfig(0))
                                    ELSE NoConfig]

InitInUse ==
  /\ UsedCluster
  /\ Quiescent

Init == InitFresh \/ InitInUse

Next ==
  \/ User
  \/ RootExecuteTask
  \/ ChildExecuteTask
  \/ Initialize
  \/ Terminate
  \/ \E n \in Nodes : MonitorTick(n, MaxLoopEvents)

Spec == Init /\ [][Next]_vars

\* Every awaited oracle call and Storage call returns, so a call in flight
\* takes its next step: the steps of executeTask and of initialize are not
\* postponed for ever.  Monitor ticks and terminate calls come as they like.
MainLine == RootExecuteTask \/ ChildExecuteTask \/ Initialize

\* the same two clusters where at most one more call of Storage or of the
\* oracle raises: a run meets no failure inside its own catch block
InitLive ==
  /\ FreshCluster \/ UsedCluster
  /\ NothingInFlight
  /\ faults = MaxFaults - 1

SpecLive == InitLive /\ [][Next]_vars /\ WF_vars(MainLine)

(***************************************************************************)
(* aggregateResults on its own: the caller builds any list of results and  *)
(* calls rootAgent.aggregateResults(list) (a public method).               *)
(***************************************************************************)
\* an optional field: absent, or present with one of the values
Optional(field, values) ==
  {EmptyContext} \cup {[f \in {field} |-> v] : v \in values}

\* results as ITaskResult allows them: success is required; selfTestPassed,
\* output and error are optional
SampleResults ==
  {[taskId |-> "sub", success |-> s] @@ p @@ o @@ e :
     s \in BOOLEAN,
     p \in Optional("selfTestPassed", BOOLEAN),
     o \in Optional("output", {[data |-> "out"]}),
     e \in Optional("error", {"E1", "E2"})}

InitAgg ==
  /\ status = [n \in Nodes |-> IF n = Root THEN "idle" ELSE "none"]
  /\ errorHistory = [n \in Nodes |-> <<>>]
  /\ \E task \in {NoTask, EarlierRootTask} :
       currentTask = [n \in Nodes |-> IF n = Root THEN task ELSE NoTask]
  /\ monRunning = [n \in Nodes |-> FALSE]
  /\ children = <<>>
  /\ nextId = 1
  /\ eventHistory = [n \in Nodes |-> <<>>]
  /\ config = [n \in Nodes |-> IF n = Root THEN MainRootConfig ELSE NoConfig]
  /\ rf = [IdleR EXCEPT !.pc = "aggregate_input"]
  /\ wf = IdleW
  /\ inif = IdleI
  /\ tf = [slot \in {"main", "bg"} |-> IdleT]
  /\ faults = 0
  /\ timeouts = 0
  /\ calls = 0
  /\ obs = NoObs

\* the caller adds one result to the list it is going to pass
AggregateInput ==
  /\ rf.pc = "aggregate_input"
  /\ Len(rf.results) < MaxResults
  /\ \E r \in SampleResults : rf' = [rf EXCEPT !.results = Append(@, r)]
  /\ UNCHANGED <<status, errorHistory, currentTask, monRunning, children,
                 nextId, wf, inif, tf, faults, timeouts, calls, obs,
                 eventHistory, config>>

\* rootAgent.aggregateResults(results)
AggregateCall ==
  /\ rf.pc = "aggregate_input"
  /\ rf' = [rf EXCEPT !.pc = "aggregated",
              !.result = aggregateResults(rf.results, currentTask[Root])]
  /\ UNCHANGED <<status, errorHistory, currentTask, monRunning, children,
                 nextId, wf, inif, tf, faults, timeouts, calls, obs,
                 eventHistory, config>>

NextAgg == AggregateInput \/ AggregateCall

SpecAgg == InitAgg /\ [][NextAgg]_vars

(***************************************************************************)
(* The error history on its own: the caller constructs a ChildAgent, as    *)
(* the tests of index.ts do, records errors and asks isInErrorLoop.        *)
(***************************************************************************)
ErrorMessages == <<"Same error", "Error 1">>

\* what the caller has recorded so far and the last answer of
\* isInErrorLoop (threshold 0: not asked since the last recordError)
NoHist == [recorded |-> <<>>, threshold |-> 0, answer |-> FALSE]

\* new ChildAgent({name: 'child', type: AgentType.CHILD})
TestChildConfig == ChildAgentConfig([name |-> "child", type |-> "child"])

\* the test's agent is node 1; there is no other node and nothing in flight;
\* started: agent.initialize() has been called, so its Monitor is running
StandaloneChild(started) ==
  /\ status = [n \in Nodes |-> IF n = 1 THEN "idle" ELSE "none"]
  /\ errorHistory = [n \in Nodes |-> <<>>]
  /\ currentTask = [n \in Nodes |-> NoTask]
  /\ monRunning = [n \in Nodes |-> n = 1 /\ started]
  /\ children = <<>>
  /\ nextId = 2
  /\ eventHistory = [n \in Nodes |-> <<>>]
  /\ config = [n \in Nodes |-> IF n = 1 THEN TestChildConfig ELSE NoConfig]
  /\ rf = IdleR
  /\ wf = IdleW
  /\ inif = IdleI
  /\ tf = [slot \in {"main", "bg"} |-> IdleT]
  /\ faults = 0
  /\ timeouts = 0
  /\ calls = 0

InitHist == StandaloneChild(FALSE) /\ obs = NoHist

\* the slip of a recordError that moves the node itself
RecordErrorCallForcingLoop ==
  /\ Len(obs.recorded) < MaxRecords
  /\ errorHistory' =
       [errorHistory EXCEPT ![1] = recordError(@, ErrorMessages[1])]
  /\ obs' = [NoHist EXCEPT
               !.recorded = Append(obs.recorded, ErrorMessages[1])]
  /\ eventHistory' =
       [eventHistory EXCEPT ![1] = recordErrorEvent(@, config[1])]
  /\ status' = [status EXCEPT ![1] = failureStatus(errorHistory'[1])]
  /\ UNCHANGED <<currentTask, monRunning, children, nextId, rf, wf, inif, tf,
                 faults, timeouts, calls, config>>

\* agent['recordError'](error)
RecordErrorCall ==
  /\ Len(obs.recorded) < MaxRecords
  /\ \E k \in 1..Len(ErrorMessages) :
       /\ k = 2 =>
            Len(SelectSeq(obs.recorded, LAMBDA e : e = ErrorMessages[2]))
              < MaxOtherErrors
       /\ errorHistory' =
            [errorHistory EXCEPT ![1] = recordError(@, ErrorMessages[k])]
       /\ obs' = [NoHist EXCEPT
                    !.recorded = Append(obs.recorded, ErrorMessages[k])]
  /\ eventHistory' =
       [eventHistory EXCEPT ![1] = recordErrorEvent(@, config[1])]
  /\ UNCHANGED <<status, currentTask, monRunning, children, nextId, rf, wf,
                 inif, tf, faults, timeouts, calls, config>>

\* agent.isInErrorLoop(threshold)
IsInErrorLoopCall ==
  /\ \E threshold \in 1..MaxThreshold :
       obs' = [obs EXCEPT !.threshold = threshold,
                          !.answer = isInErrorLoop(errorHistory[1], threshold)]
  /\ UNCHANGED <<status, errorHistory, currentTask, monRunning, children,
                 nextId, rf, wf, inif, tf, faults, timeouts, calls,
                 eventHistory, config>>

NextHist == RecordErrorCall \/ IsInErrorLoopCall

SpecHist == InitHist /\ [][NextHist]_vars

(***************************************************************************)
(* A Monitor on its own: a ChildAgent that has been initialized records    *)
(* errors, its Monitor ticks, and the caller reports events directly       *)
(* (reportEvent is public).                                                *)
(***************************************************************************)
InitMon == StandaloneChild(TRUE) /\ obs = NoHist

\* monitor.reportEvent({type: TIMEOUT, ...}) by the caller
ReportEventCall ==
  /\ Len(SelectSeq(eventHistory[1], LAMBDA e : e = "timeout")) < MaxReported
  /\ eventHistory' = [eventHistory EXCEPT ![1] = reportEvent(@, "timeout")]
  /\ UNCHANGED <<status, errorHistory, currentTask, monRunning, children,
                 nextId, rf, wf, inif, tf, faults, timeouts, calls, config,
                 obs>>

\* agent['recordError'](error), a few times
RecordErrorFewTimes ==
  Len(errorHistory[1]) < MaxMonitorErrors /\ RecordErrorCall

NextMon ==
  \/ RecordErrorFewTimes
  \/ ReportEventCall
  \/ MonitorTick(1, MaxMonitorEvents)

SpecMon == InitMon /\ [][NextMon]_vars

(***************************************************************************)
(* Monitor.start and Monitor.stop.  A Monitor is isRunning, the handle     *)
(* checkInterval (set or undefined) and, in the runtime, the interval      *)
(* timers created for it that have not been cleared (intervals); each of   *)
(* them calls performCheck once per period.  The node is a ChildAgent on   *)
(* its own; obs holds its Monitor's handle and timers, the numbers of      *)
(* calls made, and what the node looked like at the last stop.             *)
(***************************************************************************)
\* the slip of setting a new interval timer although one is running
startUnguarded(m) ==
  [isRunning |-> TRUE, checkInterval |-> TRUE, intervals |-> m.intervals + 1]

\* Monitor.start
start(m) ==
  IF m.isRunning THEN m
  ELSE [isRunning |-> TRUE, checkInterval |-> TRUE,
        intervals |-> m.intervals + 1]

\* Monitor.stop: clearInterval(this.checkInterval) clears the timer the
\* handle names
stop(m) ==
  [isRunning |-> FALSE, checkInterval |-> FALSE,
   intervals |-> IF m.checkInterval THEN m.intervals - 1 ELSE m.intervals]

\* the Monitor of node 1
monitor ==
  [isRunning |-> monRunning[1], checkInterval |-> obs.checkInterval,
   intervals |-> obs.intervals]

LoopEvents(events) == Len(SelectSeq(events, LAMBDA e : e # "error_detected"
                                                       /\ e # "timeout"))

NoTimers ==
  [checkInterval |-> FALSE, intervals |-> 0, starts |-> 0, restarted |-> FALSE,
   reported |-> 0,
   atStop |-> [status |-> "idle", loops |-> 0, events |-> 0]]

InitTimer == StandaloneChild(FALSE) /\ obs = NoTimers

\* monitor.start(), as agent.initialize() calls it
MonitorStart ==
  /\ obs.starts < MaxStarts
  /\ monRunning' = [monRunning EXCEPT ![1] = start(monitor).isRunning]
  /\ obs' = [obs EXCEPT !.checkInterval = start(monitor).checkInterval,
                        !.intervals = start(monitor).intervals,
                        !.starts = @ + 1,
                        !.restarted = @ \/ monRunning[1]]
  /\ UNCHANGED <<status, errorHistory, currentTask, children, nextId, rf, wf,
                 inif, tf, faults, timeouts, calls, eventHistory, config>>

\* monitor.stop(), as agent.terminate() calls it
MonitorStop ==
  /\ monRunning' = [monRunning EXCEPT ![1] = stop(monitor).isRunning]
  /\ obs' = [obs EXCEPT !.checkInterval = stop(monitor).checkInterval,
                        !.intervals = stop(monitor).intervals,
                        !.atStop = [status |-> status[1],
                                    loops |-> LoopEvents(eventHistory[1]),
                                    events |-> Len(eventHistory[1])]]
  /\ UNCHANGED <<status, errorHistory, currentTask, children, nextId, rf, wf,
                 inif, tf, faults, timeouts, calls, eventHistory, config>>

\* monitor.reportEvent({type: TIMEOUT, ...}) by the caller, whether the
\* Monitor is running or not
ReportEventAnyTime ==
  /\ obs.reported < MaxReported
  /\ eventHistory' = [eventHistory EXCEPT ![1] = reportEvent(@, "timeout")]
  /\ obs' = [obs EXCEPT !.reported = @ + 1]
  /\ UNCHANGED <<status, errorHistory, currentTask, monRunning, children,
                 nextId, rf, wf, inif, tf, faults, timeouts, calls, config>>

\* agent['recordError']('Same error'), a few times
RecordSameError ==
  /\ Len(errorHistory[1]) < MaxMonitorErrors
  /\ errorHistory' =
       [errorHistory EXCEPT ![1] = recordError(@, ErrorMessages[1])]
  /\ eventHistory' =
       [eventHistory EXCEPT ![1] = recordErrorEvent(@, config[1])]
  /\ UNCHANGED <<status, currentTask, monRunning, children, nextId, rf, wf,
                 inif, tf, faults, timeouts, calls, config, obs>>

\* an interval timer of the Monitor fires
TimerFires ==
  /\ obs.intervals > 0
  /\ MonitorTick(1, MaxTimerEvents)

NextTimer ==
  \/ MonitorStart
  \/ MonitorStop
  \/ ReportEventAnyTime
  \/ RecordSameError
  \/ TimerFires

SpecTimer == InitTimer /\ [][NextTimer]_vars

(***************************************************************************)
(* A node and its Storage files.  The node is a ChildAgent on its own      *)
(* (no parent, never initialized, so no Monitor tick); the caller runs     *)
(* executeTask on it, one call at a time.  obs holds the files of the node *)
(* (stateFile: the status in states/<id>.json, "none" while there is no    *)
(* file; contextFile: the executionLog in contexts/<id>.json, an absent    *)
(* file loads as the empty context), the executionLog in memory, the       *)
(* saveState calls in flight (saves), and the locals of the running        *)
(* addExecutionLog (entry, context).  No write fails here.  The file       *)
(* system completes the operations in flight in any order.                 *)
(***************************************************************************)
NoStore ==
  [stateFile |-> "none", contextFile |-> <<>>, executionLog |-> <<>>,
   saves |-> {}, entry |-> [task |-> 0, action |-> "none"],
   context |-> <<>>]

InitStore == StandaloneChild(FALSE) /\ obs = NoStore

\* Agent.saveState called while the status is st: getState() is taken at the
\* call; the call first writes the state file.  Equal calls in flight at the
\* same position are one element: they write the same.
saveState(st, awaited) ==
  [pc |-> "state", status |-> st, context |-> <<>>, awaited |-> awaited]

\* Agent.addExecutionLog(action, ...): push to the log in memory, then
\* Storage.appendToExecutionLog awaits loadContext
addExecutionLog(o, task, action) ==
  [o EXCEPT !.executionLog = Append(@, [task |-> task.id.call,
                                        action |-> action]),
            !.entry = [task |-> task.id.call, action |-> action]]

\* child.executeTask(task) by the caller: updateStatus(RUNNING), currentTask
\* = task, addExecutionLog('task_start') up to its loadContext
StoreExecuteTask ==
  /\ wf.pc \in {"idle", "returned"}
  /\ calls < MaxStoreCalls
  /\ calls' = calls + 1
  /\ \E task \in WorkerTasks(calls + 1) :
       /\ wf' = [WorkerCall(1, task, "user") EXCEPT !.pc = "load"]
       /\ currentTask' = [currentTask EXCEPT ![1] = task]
       /\ obs' = addExecutionLog(
                   [obs EXCEPT !.saves = @ \cup {saveState("running", FALSE)}],
                   task, "task_start")
  /\ status' = [status EXCEPT ![1] = "running"]
  /\ UNCHANGED <<errorHistory, monRunning, children, nextId, rf, inif, tf,
                 faults, timeouts, eventHistory, config>>

\* Storage.appendToExecutionLog: loadContext returns; the entry is pushed to
\* the loaded context; saveContext is awaited
AppendLoad ==
  /\ wf.pc = "load"
  /\ wf' = WGoto("save")
  /\ obs' = [obs EXCEPT !.context = Append(obs.contextFile, obs.entry)]
  /\ UNCHANGED <<status, errorHistory, currentTask, monRunning, children,
                 nextId, rf, inif, tf, faults, timeouts, calls, eventHistory,
                 config>>

\* Storage.appendToExecutionLog: saveContext returns, and executeTask goes on
\* up to its next await.  The entries that selfTest() logs are named
\* verdict_passed and verdict_failed here.
AppendSave ==
  /\ wf.pc = "save"
  /\ LET action == obs.entry.action
         written == [obs EXCEPT !.contextFile = obs.context]
         err == IF action = "task_start" THEN ErrInvalidContext
                ELSE ErrSelfTest
         hist == recordError(errorHistory[1], wf.err)
         st == IF action = "error" THEN failureStatus(hist) ELSE "completed"
         next == CASE action = "task_start" ->
                        IF validateTaskContext(wf.task) THEN "perform_task"
                        ELSE "error"
                   [] action = "task_executed" -> "self_test"
                   [] action = "verdict_passed" -> "self_test_passed"
                   [] action = "verdict_failed" -> "error"
                   [] OTHER -> "none"
     IN IF action \in {"perform_task", "self_test"}
        THEN /\ wf' = WGoto("llm")
             /\ obs' = written
             /\ UNCHANGED <<status, errorHistory, eventHistory>>
        ELSE IF action \in {"self_test_passed", "error"}
        THEN /\ wf' = WGoto("wait_save")
             /\ status' = [status EXCEPT ![1] = st]
             /\ errorHistory' = IF action = "error"
                                THEN [errorHistory EXCEPT ![1] = hist]
                                ELSE errorHistory
             /\ eventHistory' =
                  IF action = "error"
                  THEN [eventHistory EXCEPT
                          ![1] = recordErrorEvent(@, config[1])]
                  ELSE eventHistory
             /\ obs' = [written EXCEPT
                          !.saves = @ \cup {saveState(st, FALSE),
                                            saveState(st, TRUE)}]
        ELSE /\ wf' = [wf EXCEPT !.pc = "load",
                                 !.err = IF next = "error" THEN err ELSE @]
             /\ obs' = addExecutionLog(written, wf.task, next)
             /\ UNCHANGED <<status, errorHistory, eventHistory>>
  /\ UNCHANGED <<currentTask, monRunning, children, nextId, rf, inif, tf,
                 faults, timeouts, calls, config>>

\* the oracle answers: llmService.executeTask in performTask, then
\* addExecutionLog('task_executed'); llmService.selfTest in selfTest, then
\* the log of the verdict
StoreLLM ==
  /\ wf.pc = "llm"
  /\ IF obs.entry.action = "perform_task"
     THEN \E success \in BOOLEAN :
            /\ wf' = [wf EXCEPT !.pc = "load", !.llmSuccess = success]
            /\ obs' = addExecutionLog(obs, wf.task, "task_executed")
     ELSE \E o \in SelfTestOutcomes :
            /\ wf' = [wf EXCEPT !.pc = "load", !.passed = LLMSelfTest(o)]
            /\ obs' = addExecutionLog(obs, wf.task,
                                      IF LLMSelfTest(o) THEN "verdict_passed"
                                      ELSE "verdict_failed")
  /\ UNCHANGED <<status, errorHistory, currentTask, monRunning, children,
                 nextId, rf, inif, tf, faults, timeouts, calls, eventHistory,
                 config>>

\* a step of a saveState call in flight: Storage.saveAgentState writes the
\* state file; then Storage.saveContext, whose mkdir returns and whose
\* JSON.stringify takes the context as it is in memory now; then its
\* writeFile writes the context file.  The executeTask that awaits the call
\* returns when it is done.
SaveStateStep ==
  /\ \E w \in obs.saves :
       CASE w.pc = "state" ->
              /\ obs' = [obs EXCEPT
                           !.stateFile = w.status,
                           !.saves = (@ \ {w}) \cup {[w EXCEPT !.pc = "mkdir"]}]
              /\ UNCHANGED wf
         [] w.pc = "mkdir" ->
              /\ obs' = [obs EXCEPT
                           !.saves = (@ \ {w}) \cup
                                       {[w EXCEPT
                                           !.pc = "context",
                                           !.context = obs.executionLog]}]
              /\ UNCHANGED wf
         [] w.pc = "context" ->
              /\ obs' = [obs EXCEPT !.contextFile = w.context,
                                    !.saves = @ \ {w}]
              /\ wf' = IF w.awaited THEN WGoto("returned") ELSE wf
  /\ UNCHANGED <<status, errorHistory, currentTask, monRunning, children,
                 nextId, rf, inif, tf, faults, timeouts, calls, eventHistory,
                 config>>

NextStore ==
  \/ StoreExecuteTask
  \/ AppendLoad
  \/ AppendSave
  \/ StoreLLM
  \/ SaveStateStep

SpecStore == InitStore /\ [][NextStore]_vars

(***************************************************************************)
(* decomposeTask and dispatchTask on their own: the caller calls           *)
(* rootAgent.decomposeTask(task) (a public method), and each subtask is    *)
(* handed over as dispatchTask and ChildAgent.performTask hand it on.  To  *)
(* compare two runs, obs holds the context of a second task with the same  *)
(* id and description (other), and what the oracle is called with for the  *)
(* subtasks of the first task (handed) and of the second (handedOther).    *)
(***************************************************************************)
DecompContexts ==
  {EmptyContext, [priority |-> "high", requirements |-> "login"],
   [priority |-> "low", secret |-> "token"]}

\* any description: the set of keywords it contains
DecompTasks ==
  {[id |-> [kind |-> "root", call |-> 1, step |-> 0], description |-> d,
    context |-> c] :
     d \in SUBSET {Keywords[i] : i \in 1..Len(Keywords)},
     c \in DecompContexts}

\* ChildAgent.performTask: llmService.executeTask(instruction, task.context)
oracleArguments(task) ==
  [instruction |-> IF Truthy(task.context, "instruction")
                   THEN task.context.instruction ELSE task.description,
   context |-> task.context]

InitDecomp ==
  /\ status = [n \in Nodes |-> IF n = Root THEN "idle" ELSE "none"]
  /\ errorHistory = [n \in Nodes |-> <<>>]
  /\ currentTask = [n \in Nodes |-> NoTask]
  /\ monRunning = [n \in Nodes |-> FALSE]
  /\ children = <<>>
  /\ nextId = 1
  /\ eventHistory = [n \in Nodes |-> <<>>]
  /\ config = [n \in Nodes |-> IF n = Root THEN MainRootConfig ELSE NoConfig]
  /\ \E task \in DecompTasks :
       rf = [IdleR EXCEPT !.pc = "decompose_input", !.task = task]
  /\ wf = IdleW
  /\ inif = IdleI
  /\ tf = [slot \in {"main", "bg"} |-> IdleT]
  /\ faults = 0
  /\ timeouts = 0
  /\ calls = 0
  /\ \E c \in DecompContexts :
       obs = [other |-> c, handed |-> <<>>, handedOther |-> <<>>]

\* rootAgent.decomposeTask(task)
DecomposeCall ==
  /\ rf.pc = "decompose_input"
  /\ rf' = [rf EXCEPT !.pc = "decomposed",
                      !.subTasks = decomposeTask(rf.task, 1)]
  /\ UNCHANGED <<status, errorHistory, currentTask, monRunning, children,
                 nextId, wf, inif, tf, faults, timeouts, calls, obs,
                 eventHistory, config>>

\* every subtask goes through dispatchTask and performTask, for the task and
\* for the task with the other context (decomposed in a second run)
DispatchEach ==
  /\ rf.pc = "decomposed"
  /\ rf' = [rf EXCEPT !.pc = "dispatched"]
  /\ LET second == decomposeTask([rf.task EXCEPT !.context = obs.other], 2)
     IN obs' = [obs EXCEPT
                  !.handed = [i \in 1..Len(rf.subTasks) |->
                                oracleArguments(isolatedTask(rf.subTasks[i]))],
                  !.handedOther = [i \in 1..Len(second) |->
                                     oracleArguments(isolatedTask(second[i]))]]
  /\ UNCHANGED <<status, errorHistory, currentTask, monRunning, children,
                 nextId, wf, inif, tf, faults, timeouts, calls, eventHistory,
                 config>>

NextDecomp == DecomposeCall \/ DispatchEach

SpecDecomp == InitDecomp /\ [][NextDecomp]_vars

(***************************************************************************)
(* recreate() of a worker whose monitoring switch is either way: the       *)
(* caller linked the worker with root.addChild(config), the coordinator    *)
(* reuses it and recreates it when it falls into an error loop.            *)
(***************************************************************************)
\* root.initialize(); root.addChild({..., enableMonitor}) and the worker's
\* initialize(); two tasks given to the worker failed their self-test
InitRecreate ==
  /\ status = [n \in Nodes |-> IF n \in {Root, 1} THEN "idle" ELSE "none"]
  /\ errorHistory = [n \in Nodes |->
                       IF n = 1 THEN <<ErrSelfTest, ErrSelfTest>> ELSE <<>>]
  /\ currentTask = [n \in Nodes |-> IF n = 1 THEN EarlierWorkerTask
                                    ELSE NoTask]
  /\ children = <<1>>
  /\ nextId = 2
  /\ \E enabled \in BOOLEAN :
       /\ config = [n \in Nodes |->
                      IF n = Root THEN MainRootConfig
                      ELSE IF n = 1
                           THEN ChildAgentConfig(
                                  [enableMonitor |-> enabled] @@ childConfig(0))
                           ELSE NoConfig]
       /\ monRunning = [n \in Nodes |-> n = Root \/ (n = 1 /\ enabled)]
       /\ eventHistory = [n \in Nodes |->
                            IF n = 1 /\ enabled
                            THEN <<"error_detected", "error_detected">>
                            ELSE <<>>]
  /\ Quiescent

NextRecreate ==
  \/ UserExecuteTask
  \/ RootExecuteTask
  \/ ChildExecuteTask
  \/ Initialize

SpecRecreate == InitRecreate /\ [][NextRecreate]_vars

(***************************************************************************)
(* Properties                                                              *)
(***************************************************************************)
\* positions of a list whose entry satisfies a test
Positions(list, Test(_)) == {i \in 1..Len(list) : Test(list[i])}

\* picked holds Val of exactly the entries of list that satisfy Test, in the
\* order of list
KeptInOrder(picked, list, Test(_), Val(_)) ==
  LET kept == Positions(list, Test)
      Rank(i) == Cardinality({j \in kept : j <= i})
  IN /\ Len(picked) = Cardinality(kept)
     /\ \A i \in kept : picked[Rank(i)] = Val(list[i])

\* joined is the entries of list separated by "; "
JoinedFrom(joined, list) ==
  /\ Len(joined) = 2 * Len(list) - 1
  /\ \A k \in 1..Len(list) : joined[2 * k - 1] = list[k]
  /\ \A k \in 1..(Len(list) - 1) : joined[2 * k] = "; "

SettledStatuses == {"completed", "failed", "error_loop"}

\* C1: terminated is absorbing: no step of executeTask, initialize,
\* recordError or a Monitor probe moves a terminated node to another status.
C1_TerminatedAbsorbing ==
  [][\A n \in Nodes :
       status[n] = "terminated" => status'[n] = "terminated"]_vars

\* C2: on every dispatch, first or retry, the task handed to the worker has a
\* context with exactly the keys instruction, step and totalSteps, where
\* instruction is the subtask's description and step / totalSteps are the
\* subtask's; no other key of the subtask's or the parent task's context
\* (originalContext, parentTaskId, ...) is in it.
C2_DispatchedContextIsolated ==
  (wf.pc # "idle" /\ wf.caller = "root") =>
    LET subTask == rf.subTasks[rf.idx]
    IN /\ DOMAIN wf.task.context = {"instruction", "step", "totalSteps"}
       /\ wf.task.context.instruction = subTask.description
       /\ wf.task.context.step = subTask.context.step
       /\ wf.task.context.totalSteps = subTask.context.totalSteps
       /\ wf.task.id = subTask.id

C2_Witness ==
  /\ wf.caller = "root" /\ wf.pc = "perform"
  /\ rf.pc = "wait_retry"
  /\ currentTask[wf.agent] = wf.task

\* C3, as stated: whenever executeTask of a worker or of the coordinator
\* returns, the node's status is completed, failed or error_loop.
C3_ReturnsSettled ==
  /\ wf.pc = "returned" => status[wf.agent] \in SettledStatuses
  /\ rf.pc = "returned" => status[Root] \in SettledStatuses

\* C3, amended: whenever executeTask of a worker or of the coordinator
\* returns a result, the node's status is completed, failed, error_loop or,
\* when a Monitor timeout terminated the node while the call was reporting,
\* terminated; it is never running (nor idle).
C3_ReturnsSettledOrTerminated ==
  /\ wf.pc = "returned" =>
       status[wf.agent] \in SettledStatuses \cup {"terminated"}
  /\ rf.pc = "returned" =>
       status[Root] \in SettledStatuses \cup {"terminated"}

C3_Witness ==
  /\ wf.pc = "returned" /\ wf.caller = "root"
  /\ status[wf.agent] = "terminated"
  /\ IsTrue(wf.result, "success")

\* C4: the recreate branch is taken exactly when a first dispatch returned
\* an unsuccessful result from a worker in error_loop; recreate() terminates
\* that worker; the subtask is then dispatched once more, to the replacement
\* recreate() constructed, and never a third time; the retry's result takes
\* the place of the first result (the list does not grow); the coordinator
\* goes on to the next subtask or to the aggregate only after that retry has
\* returned, and the aggregate is built from the latest result of every
\* subtask.  (A recreate() or a retry that raises ends the run in the catch
\* block, without an aggregate.)
C4_RecreateAndRetryOnce ==
  /\ \A i \in 1..Len(rf.subTasks) :
       LET d == obs.dispatched[i]
       IN /\ Len(d) <= 2
          /\ (/\ obs.first[i] # NoResult
              /\ ~IsTrue(obs.first[i], "success")
              /\ obs.seen[i] = "error_loop")
               <=> (i \in obs.recreated \/ (rf.pc = "recreate" /\ rf.idx = i))
          /\ i \in obs.recreated => status[d[1]] = "terminated"
          /\ Len(d) = 2 =>
               /\ i \in obs.recreated
               /\ d[2] = obs.replacement[i]
               /\ d[2] # d[1]
               /\ d[2] \in ChildSet
          /\ (i \in obs.recreated /\ rf.pc \in {"loop", "io_report_save"}) =>
               Len(d) = 2
  /\ rf.pc = "wait_retry" /\ wf.pc # "idle" =>
       /\ wf.task.id = rf.subTasks[rf.idx].id
       /\ wf.agent = obs.replacement[rf.idx]
       /\ Len(rf.results) = rf.idx
  /\ rf.pc = "loop" =>
       /\ Len(rf.results) = rf.idx - 1
       /\ \A i \in 1..(rf.idx - 1) :
            /\ rf.results[i] = obs.last[i]
            /\ rf.results[i].taskId = rf.subTasks[i].id
  /\ rf.pc = "io_report_save" =>
       /\ rf.result.output.subTaskCount = Len(rf.subTasks)
       /\ rf.result.success =
            \A i \in 1..Len(rf.subTasks) :
              IsTrue(obs.last[i], "success")
              /\ IsTrue(obs.last[i], "selfTestPassed")

C4_Witness ==
  /\ rf.pc = "io_report_save"
  /\ 1 \in obs.recreated
  /\ Len(obs.dispatched[1]) = 2
  /\ ~IsTrue(obs.first[1], "success")
  /\ IsTrue(rf.results[1], "success")
  /\ IsTrue(rf.result, "success")

\* C5: during a coordinator run a subtask whose execution fails is attempted
\* until its worker has failed three times: when the failing dispatch
\* returns, the worker holds three identical errors, its status is
\* error_loop, and the coordinator recreates it.  (Stated for runs in which
\* no Monitor tick has found a task overdue.)
C5_FailingSubtaskTriedThreeTimes ==
  \A i \in 1..Len(rf.subTasks) :
    (timeouts = 0 /\ obs.first[i] # NoResult /\ Truthy(obs.first[i], "error")
       /\ obs.first[i].error = ErrSelfTest) =>
      /\ obs.seen[i] = "error_loop"
      /\ isInErrorLoop(errorHistory[obs.dispatched[i][1]],
                       ERROR_LOOP_THRESHOLD)
      /\ i \in obs.recreated \/ (rf.pc = "recreate" /\ rf.idx = i)

\* C6: a failure inside Worker.executeTask (invalid context, oracle execute
\* failure, self-test failure) is never raised: the call returns a result
\* with the task's id, success false, selfTestPassed false and the error,
\* and the worker's status is failed or error_loop.  (Stated for runs in
\* which no Monitor tick has found a task overdue.)
C6_WorkerFailuresReturned ==
  /\ (wf.pc = "raised") => wf.err \notin {ErrInvalidContext, ErrSelfTest}
  /\ (wf.pc = "returned" /\ timeouts = 0
        /\ (~wf.llmSuccess \/ wf.err \in {ErrInvalidContext, ErrSelfTest})) =>
       /\ wf.result.taskId = wf.task.id
       /\ wf.result.success = FALSE
       /\ wf.result.selfTestPassed = FALSE
       /\ Truthy(wf.result, "error")
       /\ status[wf.agent] \in {"failed", "error_loop"}

\* C7: Coordinator.executeTask never raises; a failure in child creation,
\* dispatch, recreate or reporting ends in a returned result with success
\* false and the task's id.
C7_CoordinatorNeverRaises ==
  /\ rf.pc # "raised"
  /\ (rf.pc = "returned" /\ rf.err # "") =>
       /\ rf.result.taskId = rf.task.id
       /\ rf.result.success = FALSE

\* C8: at no time are two children of the coordinator in status running.
C8_AtMostOneChildRunning ==
  Cardinality({c \in ChildSet : status[c] = "running"}) <= 1

\* C9: for every list of results, aggregateResults returns success = every
\* result has success and every result has selfTestPassed true,
\* selfTestPassed = every result has selfTestPassed true, subTaskCount = the
\* length, successCount and selfTestPassedCount = the numbers of such
\* results, and error = the errors of the results joined in order, absent
\* when no result carries an error.
C9_AggregateFormula ==
  rf.pc = "aggregated" =>
    LET list == rf.results
        all == 1..Len(list)
        succeeded == Positions(list, LAMBDA r : IsTrue(r, "success"))
        passed == Positions(list, LAMBDA r : IsTrue(r, "selfTestPassed"))
        failing == Positions(list, LAMBDA r : Truthy(r, "error"))
    IN /\ rf.result.success = (succeeded = all /\ passed = all)
       /\ rf.result.selfTestPassed = (passed = all)
       /\ rf.result.output.subTaskCount = Len(list)
       /\ rf.result.output.successCount = Cardinality(succeeded)
       /\ rf.result.output.selfTestPassedCount = Cardinality(passed)
       /\ KeptInOrder(rf.result.output.errors, list,
                      LAMBDA r : Truthy(r, "error"), LAMBDA r : r.error)
       /\ IF failing = {} THEN ~Has(rf.result, "error")
          ELSE /\ Has(rf.result, "error")
               /\ JoinedFrom(rf.result.error, rf.result.output.errors)

C9_Witness ==
  /\ rf.pc = "aggregated"
  /\ Len(rf.results) = 2
  /\ IsTrue(rf.results[1], "selfTestPassed")
  /\ ~Has(rf.results[2], "selfTestPassed")
  /\ rf.result.output.successCount = 2
  /\ rf.result.output.selfTestPassedCount = 1
  /\ ~rf.result.success
  /\ Has(rf.result, "error") /\ Len(rf.result.error) = 3

\* C10: the list aggregated at the end of Coordinator.executeTask has one
\* entry per subtask, the i-th entry being the latest result of the i-th
\* subtask; the outputs and the errors of the aggregate are those of the
\* entries, in that order.
C10_AggregateOrder ==
  rf.pc = "io_report_save" =>
    /\ Len(rf.results) = Len(rf.subTasks)
    /\ \A i \in 1..Len(rf.subTasks) :
         /\ rf.results[i].taskId = rf.subTasks[i].id
         /\ rf.results[i] = obs.last[i]
    /\ KeptInOrder(rf.result.output.outputs, rf.results,
                   LAMBDA r : Has(r, "output"), LAMBDA r : r.output)
    /\ KeptInOrder(rf.result.output.errors, rf.results,
                   LAMBDA r : Truthy(r, "error"), LAMBDA r : r.error)

C10_Witness ==
  /\ rf.pc = "io_report_save"
  /\ Len(rf.subTasks) = 2
  /\ Len(rf.result.output.errors) = 1
  /\ Len(rf.result.output.outputs) = 1
  /\ ~IsTrue(rf.results[1], "success")
  /\ IsTrue(rf.results[2], "success")

\* C11: for every error history and every threshold >= 1,
\* isInErrorLoop(threshold) answers true exactly when the history has at
\* least threshold entries and its last threshold entries are all the same
\* string; the entries before them have no influence.
C11_LoopIffLastEntriesEqual ==
  obs.threshold >= 1 =>
    LET h == errorHistory[1]
        last == {i \in 1..Len(h) : i > Len(h) - obs.threshold}
    IN obs.answer <=> /\ Len(h) >= obs.threshold
                      /\ \A i, j \in last : h[i] = h[j]

C11_Witness ==
  /\ obs.threshold = 3 /\ obs.answer
  /\ errorHistory[1] = <<"Error 1", "Same error", "Same error", "Same error">>

\* C12: after any sequence of recordError calls the error history is the
\* most recent min(n, 20) of the n recorded messages, in the order they were
\* recorded; so it never holds more than 20, each call appends at the end,
\* and the 21st push evicts exactly the oldest entry.
C12_HistoryIsLastTwenty ==
  LET n == Len(obs.recorded)
      h == errorHistory[1]
  IN /\ Len(h) = IF n < MaxErrorHistory THEN n ELSE MaxErrorHistory
     /\ \A i \in 1..Len(h) : h[i] = obs.recorded[n - Len(h) + i]

C12_Witness ==
  /\ Len(obs.recorded) = MaxErrorHistory + 1
  /\ obs.recorded[1] = "Error 1" /\ obs.recorded[2] = "Same error"
  /\ obs.recorded[MaxErrorHistory + 1] = "Error 1"
  /\ Len(errorHistory[1]) = MaxErrorHistory
  /\ errorHistory[1][1] = "Same error"
  /\ errorHistory[1][MaxErrorHistory] = "Error 1"

\* two config objects agree on a field: both lack it or both hold the same
SameField(a, b, f) == (Has(a, f) <=> Has(b, f)) /\ (Has(a, f) => a[f] = b[f])

TerminatedAndStopped ==
  \A n \in {Root} \cup ChildSet : status[n] = "terminated" /\ ~monRunning[n]

\* C15: when terminate(reason) on the root completes, the root and every
\* child in its children map have status terminated and their Monitors are
\* stopped, whatever Monitor ticks ran during the call.
C15_TerminateLeavesAllTerminated ==
  tf["main"].pc = "returned" => TerminatedAndStopped

\* C14: terminate(reason) called on a root that is already terminated
\* raises nothing, and when it returns the root and its children are
\* terminated and their Monitors stopped.
C14_TerminateAgainQuiet ==
  tf["main"].wasTerminated =>
    /\ tf["main"].pc # "raised"
    /\ tf["main"].pc = "returned" => TerminatedAndStopped

\* C16: terminate on a node with children terminates the children first: at
\* the step in which the root's status becomes terminated, every child in
\* its children map already has status terminated.
C16_ChildrenTerminatedFirst ==
  [][(status[Root] # "terminated" /\ status'[Root] = "terminated") =>
       \A c \in ChildSet : status[c] = "terminated"]_vars

\* C17: executeTask called on a node whose status is running or terminated
\* does not start a task: the first step of the call leaves the node's
\* currentTask and status as they are.
C17_ExecuteTaskRefusedWhenBusy ==
  [][/\ (wf.pc = "begin" /\ status[wf.agent] \in {"running", "terminated"})
          => /\ currentTask'[wf.agent] = currentTask[wf.agent]
             /\ status'[wf.agent] = status[wf.agent]
     /\ (rf.pc = "begin" /\ status[Root] \in {"running", "terminated"})
          => /\ currentTask'[Root] = currentTask[Root]
             /\ status'[Root] = status[Root]]_vars

\* C18: in every reachable state the event history of every Monitor holds
\* at most 100 events.
C18_EventHistoryCapped ==
  \A n \in Nodes : Len(eventHistory[n]) <= MAX_EVENTS

\* C19: every result returned by the coordinator's executeTask, from the
\* normal path or from the catch block, has a success field, a
\* selfTestPassed field and an output or an error.
C19_TopLevelResultShape ==
  rf.pc = "returned" =>
    /\ Has(rf.result, "success")
    /\ Has(rf.result, "selfTestPassed")
    /\ Has(rf.result, "output") \/ Has(rf.result, "error")

\* C20: a failing Storage write (saveState, an execution-log append, the
\* notification of the parent) is swallowed: no executeTask of a worker or of
\* the coordinator and no terminate is ended by raising.
C20_PersistenceFailureSwallowed ==
  /\ wf.pc # "raised"
  /\ rf.pc # "raised"
  /\ tf["main"].pc # "raised"

\* C21: when the oracle's execute call has failed (it answered
\* success:false), the worker's executeTask returns a result with success
\* false and the worker's status is not completed.
C21_OracleFailureFailsTask ==
  (wf.pc = "returned" /\ ~wf.llmSuccess) =>
    /\ ~IsTrue(wf.result, "success")
    /\ status[wf.agent] # "completed"

\* C22: when the oracle's selfTest call has failed, the value of the
\* worker's selfTest() is that of the minimal structural check: true exactly
\* when the worker has a current task and its status is running.  (Stated
\* for runs in which no Monitor tick has found a task overdue.)
C22_SelfTestFallsBack ==
  (wf.oracle = "failed" /\ timeouts = 0) =>
    (wf.passed <=> (currentTask[wf.agent] # NoTask
                    /\ status[wf.agent] = "running"))

\* C23: a task with neither context.instruction nor a description is
\* rejected by the worker's executeTask before any oracle call: performTask
\* and selfTest are never begun, and when the call returns exactly one
\* error, the invalid-context error, has been recorded and the result has
\* success false, selfTestPassed false and that error.
C23_InvalidContextRejected ==
  (wf.pc # "idle" /\ ~Truthy(wf.task.context, "instruction")
     /\ wf.task.description = "") =>
    /\ wf.pc \notin {"perform", "self_test", "io_self_test_passed"}
    /\ wf.oracle = "none"
    /\ wf.pc \in {"report", "returned"} =>
         /\ errorHistory[wf.agent] =
              Append(wf.historyAtCall, ErrInvalidContext)
         /\ wf.result = [taskId |-> wf.task.id, success |-> FALSE,
                         error |-> ErrInvalidContext,
                         selfTestPassed |-> FALSE]

C23_Witness ==
  /\ wf.pc = "returned"
  /\ wf.task.description = "" /\ wf.task.context = EmptyContext
  /\ wf.result.error = ErrInvalidContext
  /\ Len(errorHistory[wf.agent]) = 3
  /\ status[wf.agent] = "failed"

\* C24: a worker is in error_loop only after three consecutive failed
\* executions: when a dispatch of a coordinator run returns with the worker
\* in error_loop, the execution that the same worker made just before, for
\* the previous subtask, was not a success.  (Stated for runs in which no
\* Monitor tick has found a task overdue.)
C24_LoopNeedsConsecutiveFailures ==
  \A i \in 2..Len(rf.subTasks) :
    (/\ timeouts = 0
     /\ obs.seen[i] = "error_loop"
     /\ Len(obs.dispatched[i - 1]) = 1
     /\ obs.dispatched[i][1] = obs.dispatched[i - 1][1]) =>
      ~IsTrue(obs.first[i - 1], "success")

\* C25: Monitor.start while running creates no second periodic check (at
\* most one interval timer is alive, exactly one while the Monitor runs);
\* after Monitor.stop no timer is alive and, while the Monitor stays
\* stopped, the node's status and the loop records are as they were at the
\* stop; every event given to reportEvent, before or after a stop, is in the
\* history.
C25_StartStopReportEvent ==
  /\ obs.intervals = (IF monRunning[1] THEN 1 ELSE 0)
  /\ obs.checkInterval <=> monRunning[1]
  /\ ~monRunning[1] =>
       /\ status[1] = obs.atStop.status
       /\ LoopEvents(eventHistory[1]) = obs.atStop.loops
  /\ Len(SelectSeq(eventHistory[1], LAMBDA e : e = "timeout")) = obs.reported

\* start was called while running, a tick has put the node in error_loop,
\* the Monitor has been stopped, and an event reported after the stop is the
\* last of the history
C25_Witness ==
  /\ obs.restarted
  /\ ~monRunning[1]
  /\ obs.starts > 0
  /\ status[1] = "error_loop"
  /\ obs.reported = 1
  /\ Len(eventHistory[1]) = obs.atStop.events + 1
  /\ eventHistory[1][Len(eventHistory[1])] = "timeout"

\* C26: once the coordinator has re-linked a recreated worker (it is about
\* to retry, or retrying, the subtask on the replacement), the replacement is
\* among the coordinator's children and the worker it replaces is not.
C26_ReplacementTakesPlace ==
  rf.pc \in {"retry_dispatch", "wait_retry"} =>
    /\ rf.target \in ChildSet
    /\ obs.dispatched[rf.idx][1] \notin ChildSet

\* C27: every entry (k, c) of the coordinator's children map has k = c.id
\* and c.parentId = the coordinator's id, in every reachable state.
C27_TreeInvariant ==
  \A i \in 1..Len(children) :
    /\ AgentId(children[i]) = children[i]
    /\ Has(config[children[i]], "parentId")
    /\ config[children[i]].parentId = AgentId(Root)

\* the replacement of a recreated worker has been linked (addChild made the
\* worker it replaces) and removeChild has then removed a child
C27_Witness ==
  /\ children = <<2>>
  /\ status[1] = "terminated"
  /\ Has(config[2], "id")
  /\ config[2].parentId = Root
  /\ AllIdle

\* C28: once executeTask has returned and no write that was issued is still
\* in flight, the persisted record of the node shows the status the node has
\* in memory.
C28_PersistedStatusIsCurrent ==
  (wf.pc = "returned" /\ obs.saves = {}) => obs.stateFile = status[1]

\* C29: once executeTask has returned and no write that was issued is still
\* in flight, the persisted execution log is the execution log in memory:
\* each entry once, in the same order.
C29_PersistedLogIsCopy ==
  (wf.pc = "returned" /\ obs.saves = {}) => obs.contextFile = obs.executionLog

\* C30: the step of ChildAgent.executeTask that settles the outcome: on
\* failure the error is recorded and the status becomes error_loop if and
\* only if the last three entries of the updated history are equal, failed
\* otherwise; on success the status becomes completed and the error history
\* is the one the worker had when executeTask was called.
C30_OutcomeSetsStatus ==
  [][(wf.pc # "report" /\ wf'.pc = "report") =>
       LET a == wf'.agent
       IN IF IsTrue(wf'.result, "success")
          THEN /\ status'[a] = "completed"
               /\ errorHistory'[a] = wf.historyAtCall
          ELSE /\ errorHistory'[a] =
                    recordError(wf.historyAtCall, wf'.result.error)
               /\ status'[a] =
                    IF isInErrorLoop(errorHistory'[a], ERROR_LOOP_THRESHOLD)
                    THEN "error_loop" ELSE "failed"]_vars

\* a failed execution has put the worker in error_loop: its third
\* 'Self-test failed' in a row
C30_Witness ==
  /\ wf.pc = "report"
  /\ ~IsTrue(wf.result, "success")
  /\ wf.result.error = ErrSelfTest
  /\ errorHistory[wf.agent] = <<ErrSelfTest, ErrSelfTest, ErrSelfTest>>
  /\ status[wf.agent] = "error_loop"

\* C31: fan-out is on demand.  A subtask is dispatched to the first child
\* that is idle or completed; a worker is constructed only for a subtask at
\* hand and only while no child is idle or completed; the retry goes to the
\* idle replacement.
C31_FanOutOnDemand ==
  /\ rf.pc = "dispatch" =>
       \E i \in 1..Len(children) :
         /\ children[i] = rf.target
         /\ status[rf.target] \in {"idle", "completed"}
         /\ \A j \in 1..(i - 1) :
              status[children[j]] \notin {"idle", "completed"}
  /\ rf.pc = "wait_init" =>
       /\ rf.idx <= Len(rf.subTasks)
       /\ children[Len(children)] = rf.target
       /\ \A j \in 1..(Len(children) - 1) :
            status[children[j]] \notin {"idle", "completed"}
  /\ rf.pc = "retry_dispatch" => status[rf.target] = "idle"

\* the first subtask went to the existing child, which failed; for the
\* second subtask a worker has been constructed and is about to be
\* dispatched to
C31_Witness ==
  /\ rf.pc = "dispatch"
  /\ rf.idx = 2
  /\ obs.dispatched[1] = <<1>>
  /\ status[1] = "failed"
  /\ rf.target = 2
  /\ children = <<1, 2>>

\* C32: a timeout ends in termination: when an execution whose task a
\* Monitor tick has found overdue returns, the worker's status is terminated.
C32_TimeoutStaysTerminated ==
  (wf.pc = "returned" /\ wf.timedOut) => status[wf.agent] = "terminated"

\* C33: a Monitor tick finds a task overdue, and terminates the node, only
\* while the node is executing a task: a node whose executeTask has returned
\* is not timed out by a later tick.
C33_TimeoutOnlyWhileExecuting ==
  [][\A n \in Nodes :
       (timeouts' = timeouts + 1 /\ eventHistory'[n] # eventHistory[n]) =>
         \/ wf.pc # "idle" /\ wf.agent = n
         \/ rf.pc # "idle" /\ n = Root]_vars

\* C34: a Monitor tick of a node whose last three errors are equal records
\* loop_detected first; if the tick also finds the task overdue, the timeout
\* event comes after it and the node ends the tick terminated, otherwise it
\* ends the tick in error_loop.  (A tick is the step that adds events without
\* adding an error.)
C34_TickProbesInOrder ==
  [][\A n \in Nodes :
       LET old == Len(eventHistory[n])
           new == SubSeq(eventHistory'[n], old + 1, Len(eventHistory'[n]))
       IN (/\ Len(eventHistory'[n]) > old
           /\ errorHistory'[n] = errorHistory[n]
           /\ isInErrorLoop(errorHistory[n], ERROR_LOOP_THRESHOLD)) =>
            /\ new[1] = "loop_detected"
            /\ IF timeouts' = timeouts + 1
               THEN /\ new[Len(new)] = "timeout"
                    /\ status'[n] = "terminated"
               ELSE /\ \A k \in 1..Len(new) : new[k] = "loop_detected"
                    /\ status'[n] = "error_loop"]_vars

\* a tick has found both an error loop and an overdue task
C34_Witness ==
  \E n \in Nodes :
    /\ isInErrorLoop(errorHistory[n], ERROR_LOOP_THRESHOLD)
    /\ Len(eventHistory[n]) >= 3
    /\ SubSeq(eventHistory[n], Len(eventHistory[n]) - 2, Len(eventHistory[n]))
         = <<"loop_detected", "loop_detected", "timeout">>
    /\ status[n] = "terminated"
    /\ timeouts = 1

\* C35: recordError (with the error_detected event it reports) and a direct
\* reportEvent leave the status, the current task and the children as they
\* are; on a node that executes nothing the status changes only in a Monitor
\* tick, which records loop_detected.
C35_RecordingIsObservationOnly ==
  [][LET last == eventHistory'[1][Len(eventHistory'[1])]
     IN /\ (eventHistory' # eventHistory
              /\ last \in {"error_detected", "timeout"}) =>
             UNCHANGED <<status, currentTask, children>>
        /\ errorHistory' # errorHistory =>
             /\ last = "error_detected"
             /\ UNCHANGED <<status, currentTask, children>>
        /\ status' # status =>
             /\ last = "loop_detected"
             /\ status'[1] = "error_loop"]_vars

\* the third identical error has been recorded and an event reported, and
\* the node is still idle
C35_Witness ==
  /\ errorHistory[1] = <<ErrorMessages[1], ErrorMessages[1], ErrorMessages[1]>>
  /\ Len(SelectSeq(eventHistory[1], LAMBDA e : e = "timeout")) = 1
  /\ eventHistory[1][Len(eventHistory[1])] = "error_detected"
  /\ status[1] = "idle"
  /\ currentTask[1] = NoTask

C37_OutOfNodes ==
  /\ nextId > MaxNodes
  /\ \/ rf.pc = "loop" /\ findAvailableChild(children, status) = Root
     \/ rf.pc = "io_recreate_save"

\* C37: a run of Coordinator.executeTask all of whose awaited calls come
\* back (at most one of them by raising) returns a result, whatever the
\* oracle answers and however the Monitor ticks fall: from its start it
\* leads to its return, or to the one place where
\* the model, not the program, stops it: a worker has to be constructed and
\* every node of the model is in use.  No subtask is dispatched more than
\* twice and none is recreated more than once, which bounds the dispatches
\* by 2n and the recreations by n.
C37_ExecuteTaskReturns ==
  /\ [](/\ \A i \in 1..Len(rf.subTasks) : Len(obs.dispatched[i]) <= 2
        /\ Cardinality(obs.recreated) <= Len(rf.subTasks))
  /\ (rf.pc = "begin") ~> (rf.pc = "returned" \/ C37_OutOfNodes)

C37_Witness ==
  /\ rf.pc = "returned"
  /\ Len(rf.subTasks) = 2
  /\ Len(obs.dispatched[1]) = 2
  /\ obs.recreated = {1}

\* C38: two runs on tasks with the same id and description and different
\* context payloads hand the same sequence of contexts to the workers; each
\* context holds instruction, step and totalSteps and nothing else, and the
\* oracle execute call of a worker receives that instruction and that
\* context: nothing handed on depends on the parent task's context.
C38_AncestorContextNoninterference ==
  rf.pc = "dispatched" =>
    /\ Len(obs.handed) = Len(rf.subTasks)
    /\ obs.handedOther = obs.handed
    /\ \A i \in 1..Len(obs.handed) :
         /\ DOMAIN obs.handed[i].context = {"instruction", "step", "totalSteps"}
         /\ obs.handed[i].instruction = rf.subTasks[i].description
         /\ obs.handed[i].context =
              [instruction |-> rf.subTasks[i].description,
               step |-> i, totalSteps |-> Len(rf.subTasks)]

\* the two runs differ in their context payload, one of them holds a secret
C38_Witness ==
  /\ rf.pc = "dispatched"
  /\ rf.task.context # obs.other
  /\ Has(obs.other, "secret")
  /\ rf.task.context # EmptyContext
  /\ Len(obs.handed) >= 2

\* C39: the replacement that recreate() constructs has the configuration of
\* the node it replaces, the identity apart; in particular the replacement
\* of a node constructed with monitoring disabled has monitoring disabled
\* and no Monitor is started for it.
C39_RecreateKeepsConfiguration ==
  \A i \in obs.recreated :
    LET old == obs.dispatched[i][1]
        new == obs.replacement[i]
    IN new # Root =>
         /\ \A f \in DOMAIN config[old] \ {"id"} :
              config[new][f] = config[old][f]
         /\ ~config[old].enableMonitor => ~monRunning[new]

\* a result carries both flags and they agree
C40_SameFlags(result) ==
  /\ Has(result, "success") /\ Has(result, "selfTestPassed")
  /\ result.success = result.selfTestPassed

\* C40: a result that Worker.executeTask returns has selfTestPassed equal to
\* success; so have the results the coordinator collects, and in the
\* aggregate it builds from them successCount = selfTestPassedCount and
\* success is true exactly when successCount = subTaskCount.
C40_SelfTestEqualsSuccess ==
  /\ wf.pc = "returned" => C40_SameFlags(wf.result)
  /\ \A i \in 1..Len(rf.results) : C40_SameFlags(rf.results[i])
  /\ (rf.pc \in {"io_report_save", "returned"} /\ Has(rf.result, "output")) =>
       /\ rf.result.output.subTaskCount = Len(rf.results)
       /\ rf.result.output.successCount = rf.result.output.selfTestPassedCount
       /\ rf.result.success
            <=> rf.result.output.successCount = rf.result.output.subTaskCount

\* an aggregate of one result of the success path and one of a failure path
C40_Witness ==
  /\ rf.pc = "io_report_save"
  /\ Len(rf.results) = 2
  /\ rf.results[1].success /\ rf.results[1].selfTestPassed
  /\ ~rf.results[2].success /\ ~rf.results[2].selfTestPassed
  /\ rf.result.output.successCount = 1
  /\ ~rf.result.success
====
